---- MODULE Spec2Model ----
(***************************************************************************)
(* TenFin scraper (scrape.py): the retrying page fetcher                   *)
(* fetch_single_page, the batch orchestrator fetch_pages_concurrently,     *)
(* merge_and_cleanup and main; and the filter engine (filter_engine.py):   *)
(* parse_tender_blocks_from_tagged_file,                                   *)
(* extract_tender_info_from_tagged_block, matches_filters and run_filter.  *)
(*                                                                         *)
(* Spec and SpecFair are a scraper run up to the call of merge_and_cleanup,*)
(* SpecMerge is merge_and_cleanup on any set of page files, in two         *)
(* successive runs of the script, and SpecFilter is one call of run_filter *)
(* on any source file and criteria.  SpecSameName is two calls of          *)
(* run_filter with one filter_name, SpecFilterDuringMerge a call of        *)
(* run_filter on the corpus file while merge_and_cleanup writes it, and    *)
(* SpecDashboard the request handlers of dashboard.py and dashboard-og.py. *)
(*                                                                         *)
(* A page's cleaned text is one of a few representative strings; what the  *)
(* code reads of a string (its length, the phrases it contains, its        *)
(* hash(), written h0..h5) is given by TextLen, Contains and Hash.          *)
(***************************************************************************)
EXTENDS Integers, Sequences, FiniteSets, TLC

\* scrape.py:34 sets 150; the model runs the same loop over fewer pages.
MAX_PAGES_TO_FETCH == 4
\* scrape.py:35 sets 5; the model runs the same loop with smaller batches.
CONCURRENT_FETCHES == 2
RETRY_LIMIT == 3
\* the literal of `len(content) < 100`
MIN_CONTENT_LENGTH == 100

PageNumbers == 1..MAX_PAGES_TO_FETCH

\* Python's None, and the absence of Page_N.txt in RAW_PAGES_DIR.
None == "None"
NoFile == "NoFile"
\* What a failed write_text can leave behind: the file opened (created and
\* truncated) and nothing written.
EmptyText == ""

(***************************************************************************)
(* Cleaned page texts.  "A", "B" and "A2" are listing pages; "A2" differs  *)
(* from "A" and has the same hash() (hash is not injective on strings).    *)
(***************************************************************************)
ListingTexts == {"A", "B", "A2"}
Contents == ListingTexts \cup {"NoRec", "NoTend", "Short"}

TextLen(c) ==
    CASE c = "A" -> 100
      [] c = "B" -> 250
      [] c = "A2" -> 180
      [] c = "NoRec" -> 150
      [] c = "NoTend" -> 20
      [] c = "Short" -> 99
      [] OTHER -> 0

Contains(c, phrase) ==
    \/ c = "NoRec" /\ phrase = "No Records Found"
    \/ c = "NoTend" /\ phrase = "No Tenders Available"

Hash(c) ==
    CASE c \in {"A", "A2"} -> "h1"
      [] c = "B" -> "h2"
      [] c = "NoRec" -> "h3"
      [] c = "NoTend" -> "h4"
      [] c = "Short" -> "h5"
      [] OTHER -> "h0"

\* 2 ** attempt
Pow2(n) == IF n = 1 THEN 2 ELSE IF n = 2 THEN 4 ELSE IF n = 3 THEN 8 ELSE 16

\* How one attempt of fetch_single_page can end.
Raised == {"PlaywrightTimeout", "PlaywrightError", "Exception"}
AttemptOutcomes == Raised \cup {"empty", "ok"}

\* The cleaned text an attempt can return: any text when it succeeds, none
\* otherwise.
CleanedTexts(outcome) == IF outcome = "ok" THEN Contents ELSE {None}

VARIABLES
    pc,                      \* position of fetch_pages_concurrently / main
    browser,                 \* None | "open" | "closed"
    current_page_num,
    batch,                   \* page numbers of `tasks`, in order
    pages_in_batch,          \* browser pages opened for the batch, by page number
    open_pages,              \* browser pages opened and not yet closed
    close_idx,               \* position of the page-closing loop
    task,                    \* per page number: the fetch_single_page coroutine
    results,                 \* what gather returned
    result_idx,              \* position of the result-processing loop
    all_fetched_content,     \* page number -> content, None where absent
    last_valid_content_hash,
    stop_fetching,
    raw_pages,               \* RAW_PAGES_DIR: page number -> text of Page_N.txt, NoFile
    success,
    status_message,
    \* history of the run (read by the properties only)
    dispatched,              \* page numbers given to fetch_single_page, in order
    resolved,                \* page numbers whose fetch_single_page returned
    processed,               \* page numbers whose result the orchestrator examined
    stop_page,               \* page whose result raised the stop signal, 0 if none
    stop_reason,             \* "none" | "no_records" | "short" | "duplicate"
    error                    \* exception that left the batch loop, "none" if none

\* merge_and_cleanup and the part of main that reads its result
VARIABLES
    m_pc,                    \* position of merge_and_cleanup, "idle" outside it
    today,                   \* the calendar day datetime.now() falls on
    corpus_files,            \* BASE_DATA_DIR: corpus path -> the file's blocks
    page_files,              \* the sorted listing, as page indexes
    file_idx,                \* position of `for page_path in page_files`
    seen_content_hashes,
    merged_count,
    final_output_file,       \* the path merge_and_cleanup returned, None if none
    \* history of the merge runs (read by the properties only)
    run,                     \* 1 in the first run of the script, 2 in the later one
    input_files,             \* RAW_PAGES_DIR as the current run's listing found it
    io_errors,               \* <<operation, page index>> of each OSError of this run
    first_run                \* what the first run left, once the later run starts

mergeVars == <<m_pc, today, corpus_files, page_files, file_idx,
               seen_content_hashes, merged_count, final_output_file, run,
               input_files, io_errors, first_run>>

\* run_filter (filter_engine.py)
VARIABLES
    f_pc,                    \* position of run_filter, "idle" outside it
    tender_file,             \* base_folder / tender_filename as read_text finds it
    criteria,                \* keywords, use_regex, state, start_date, end_date
    tagged_blocks,
    block_idx,               \* position of `for block_text in tagged_blocks`
    matching_tender_dictionaries,
    result_file,             \* Filtered Tenders/{filter_name} Tenders/Filtered_Tenders.json
    other,                   \* another call of run_filter with the same filter_name
    \* history (read by the properties only)
    read_failed              \* the source file was missing or unreadable

filterVars == <<f_pc, tender_file, criteria, tagged_blocks, block_idx,
                matching_tender_dictionaries, result_file, other,
                read_failed>>

\* the dashboard (dashboard.py) and its first version (dashboard-og.py)
VARIABLES
    d_dirs,                  \* the directories under SCRIPT_DIR, as paths
    d_files,                 \* the files under SCRIPT_DIR, as paths
    d_link,                  \* where the symbolic link "link" of FILTERED_PATH points
    d_call,                  \* the last call of run_filter a handler made
    d_resp                   \* the last request to view, download or delete, and
                             \* the path its handler looked at

dashVars == <<d_dirs, d_files, d_link, d_call, d_resp>>

\* The variables of the stages that follow the fetch.
stageVars == <<mergeVars, filterVars, dashVars>>

vars == <<pc, browser, current_page_num, batch, pages_in_batch, open_pages,
          close_idx, task, results, result_idx, all_fetched_content,
          last_valid_content_hash, stop_fetching, raw_pages, success,
          status_message, dispatched, resolved, processed, stop_page,
          stop_reason, error, stageVars>>

orchVars == <<browser, current_page_num, batch, pages_in_batch, open_pages,
              close_idx, results, result_idx>>
dataVars == <<all_fetched_content, last_valid_content_hash, stop_fetching,
              raw_pages>>
orchVars_less_idx == <<browser, current_page_num, batch, pages_in_batch, open_pages,
                       close_idx, results>>
mainVars == <<success, status_message>>
histVars == <<dispatched, resolved, processed, stop_page, stop_reason, error>>

IdleTask == [pc |-> "idle", attempt |-> 0, delay |-> 0, content |-> None]

\* One corpus file per calendar day: Final_Tender_List_{YYYY-MM-DD}.txt.
Days == 1..2

final_output_path_Undated(day) == "Final_Tender_List.txt"

final_output_path(day) ==
    IF day = 1 THEN "Final_Tender_List_day1.txt"
    ELSE "Final_Tender_List_day2.txt"

CorpusPaths == {final_output_path(d) : d \in Days} \cup {"Final_Tender_List.txt"}

\* A corpus path with no file behind it.
NoCorpus == [exists |-> FALSE, blocks |-> <<>>]

NoFirstRun == [day |-> 0, path |-> None, corpus |-> NoCorpus, errors |-> {}]

\* The state before main calls merge_and_cleanup: no corpus file yet and
\* the locals of merge_and_cleanup unset.
MergeNotCalled ==
    /\ m_pc = "idle"
    /\ today = 1
    /\ corpus_files = [f \in CorpusPaths |-> NoCorpus]
    /\ page_files = <<>>
    /\ file_idx = 1
    /\ seen_content_hashes = {}
    /\ merged_count = 0
    /\ final_output_file = None
    /\ run = 1
    /\ input_files = raw_pages
    /\ io_errors = {}
    /\ first_run = NoFirstRun

NoCriteria == [keywords |-> <<>>, use_regex |-> FALSE, state |-> "",
               start_date |-> "", end_date |-> ""]

\* A result path with no file behind it.
NoResult == [exists |-> FALSE, complete |-> FALSE, tenders |-> <<>>]

\* No other call of run_filter is under way.
OtherIdle == [pc |-> "idle", criteria |-> NoCriteria, out |-> <<>>,
              read_failed |-> FALSE, ended_before |-> FALSE,
              started_after |-> FALSE]

\* The state before run_filter is called.
FilterNotCalled ==
    /\ f_pc = "idle"
    /\ tender_file = [exists |-> FALSE, text |-> ""]
    /\ criteria = NoCriteria
    /\ tagged_blocks = <<>>
    /\ block_idx = 1
    /\ matching_tender_dictionaries = <<>>
    /\ result_file = NoResult
    /\ other = OtherIdle
    /\ read_failed = FALSE

\* Paths are sequences of names below SCRIPT_DIR.
BASE_PATH == <<"scraped_data">>
FILTERED_PATH == BASE_PATH \o <<"Filtered Tenders">>

\* The name under which dashboard.py looks for a result set.
FILTERED_TENDERS_FILENAME == "Filtered_Tenders.txt"

\* The name under which run_filter writes it.
output_filename == "Filtered_Tenders.json"

\* A corpus file that a scrape left in BASE_PATH.
CorpusFileName == "Final_Tender_List_day1.txt"

NoLink == <<>>
NoCall == [app |-> "none", filter_name |-> "", outcome |-> "none"]
NoRequest == [op |-> "none", subdir |-> "", status |-> "none", path |-> <<>>,
              has_result |-> FALSE]

\* The data directory before any request: one corpus file, no result set.
DashboardNotServing ==
    /\ d_dirs = {BASE_PATH, FILTERED_PATH}
    /\ d_files = {BASE_PATH \o <<CorpusFileName>>}
    /\ d_link = NoLink
    /\ d_call = NoCall
    /\ d_resp = NoRequest

\* main has created RAW_PAGES_DIR and calls fetch_pages_concurrently; the
\* directory holds no page file (merge_and_cleanup unlinks the files of the
\* run before).
Init ==
    /\ pc = "launch"
    /\ browser = None
    /\ current_page_num = 1
    /\ batch = <<>>
    /\ pages_in_batch = <<>>
    /\ open_pages = {}
    /\ close_idx = 1
    /\ task = [p \in PageNumbers |-> IdleTask]
    /\ results = <<>>
    /\ result_idx = 1
    /\ all_fetched_content = [p \in PageNumbers |-> None]
    /\ last_valid_content_hash = None
    /\ stop_fetching = FALSE
    /\ raw_pages = [p \in PageNumbers |-> NoFile]
    /\ success = FALSE
    /\ status_message = "Scraper started."
    /\ dispatched = <<>>
    /\ resolved = {}
    /\ processed = {}
    /\ stop_page = 0
    /\ stop_reason = "none"
    /\ error = "none"
    /\ MergeNotCalled
    /\ DashboardNotServing
    /\ FilterNotCalled

(***************************************************************************)
(* fetch_single_page                                                       *)
(***************************************************************************)

\* BackoffAfter with a fixed delay.
BackoffAfter_Fixed(outcome, attempt) ==
    IF outcome \in Raised /\ attempt < RETRY_LIMIT THEN 2 ELSE 0

\* Seconds slept after an attempt that ended with `outcome`, 0 for no sleep:
\* the except clauses fall through to `if attempt < RETRY_LIMIT: sleep(2 **
\* attempt)`, the `continue` of the empty-content branch does not.
BackoffAfter(outcome, attempt) ==
    IF outcome \in Raised /\ attempt < RETRY_LIMIT THEN Pow2(attempt) ELSE 0

\* Whether the for loop has another iteration after `attempt`.
HasNextAttempt(attempt) == attempt < RETRY_LIMIT

\* Escapes with no `except Exception` clause after the two Playwright ones.
Escapes_Unexpected(outcome) == outcome = "Exception"

\* Whether an attempt that ended with `outcome` leaves fetch_single_page as
\* an exception: the three except clauses end with `except Exception`, so
\* nothing an attempt raises does.
Escapes(outcome) == FALSE

\* The coroutine after one attempt (goto, content, clean_text) ended with
\* `outcome`; `c` is the cleaned text of a successful attempt.
AfterAttempt(t, outcome, c) ==
    IF outcome = "ok"
    THEN [pc |-> "done", attempt |-> 0, delay |-> 0, content |-> c]
    ELSE IF Escapes(outcome)
    THEN [pc |-> "raised", attempt |-> 0, delay |-> 0, content |-> None]
    ELSE IF BackoffAfter(outcome, t.attempt) > 0
    THEN [t EXCEPT !.pc = "sleep", !.delay = BackoffAfter(outcome, t.attempt)]
    ELSE IF HasNextAttempt(t.attempt)
    THEN [t EXCEPT !.attempt = t.attempt + 1]
    ELSE [pc |-> "done", attempt |-> 0, delay |-> 0, content |-> None]

\* Navigate with the hash of the page kept by the task that fetched it.
Navigate_UpdatesHash(p, outcome, c) ==
    /\ task[p].pc = "nav"
    /\ task' = [task EXCEPT ![p] = AfterAttempt(task[p], outcome, c)]
    /\ resolved' = IF task'[p].pc = "done" THEN resolved \cup {p} ELSE resolved
    /\ last_valid_content_hash' =
          IF outcome = "ok" THEN Hash(c) ELSE last_valid_content_hash
    /\ UNCHANGED <<pc, orchVars, all_fetched_content, stop_fetching, raw_pages,
                   mainVars, dispatched, processed, stop_page, stop_reason,
                   error>>
    /\ UNCHANGED stageVars

\* One attempt of the retry loop, from page.goto to its return or except.
Navigate(p, outcome, c) ==
    /\ task[p].pc = "nav"
    /\ task' = [task EXCEPT ![p] = AfterAttempt(task[p], outcome, c)]
    /\ resolved' = IF task'[p].pc = "done" THEN resolved \cup {p} ELSE resolved
    /\ UNCHANGED <<pc, orchVars, dataVars, mainVars, dispatched, processed,
                   stop_page, stop_reason, error>>
    /\ UNCHANGED stageVars

\* asyncio.sleep(2 ** attempt) returns; the for loop takes the next attempt.
Wake(p) ==
    /\ task[p].pc = "sleep"
    /\ task' = [task EXCEPT ![p] = [@ EXCEPT !.pc = "nav",
                                             !.attempt = @ + 1,
                                             !.delay = 0]]
    /\ UNCHANGED <<pc, orchVars, dataVars, mainVars, histVars>>
    /\ UNCHANGED stageVars

(***************************************************************************)
(* fetch_pages_concurrently                                                *)
(***************************************************************************)

\* playwright.chromium.launch
Launch ==
    /\ pc = "launch"
    /\ browser' = "open"
    /\ pc' = "loop"
    /\ UNCHANGED <<current_page_num, batch, pages_in_batch, open_pages,
                   close_idx, results, result_idx, task, dataVars, mainVars,
                   histVars>>
    /\ UNCHANGED stageVars

LaunchFails ==
    /\ pc = "launch"
    /\ error' = "launch"
    /\ pc' = "finally"
    /\ UNCHANGED <<orchVars, task, dataVars, mainVars, dispatched, resolved,
                   processed, stop_page, stop_reason>>
    /\ UNCHANGED stageVars

\* while current_page_num <= MAX_PAGES_TO_FETCH and not stop_fetching
LoopContinues ==
    current_page_num <= MAX_PAGES_TO_FETCH /\ ~stop_fetching

WhileCheck ==
    /\ pc = "loop"
    /\ IF LoopContinues
       THEN /\ pc' = "prepare"
            /\ batch' = <<>>
            /\ pages_in_batch' = <<>>
            /\ task' = [p \in PageNumbers |-> IdleTask]
       ELSE /\ pc' = "finally"
            /\ UNCHANGED <<batch, pages_in_batch, task>>
    /\ UNCHANGED <<browser, current_page_num, open_pages, close_idx, results,
                   result_idx, dataVars, mainVars, histVars>>
    /\ UNCHANGED stageVars

\* BatchHasRoom without the bound of range(CONCURRENT_FETCHES).
BatchHasRoom_Unbounded == current_page_num <= MAX_PAGES_TO_FETCH

\* current_page_num left as it is.
NextPageNum_Same(n) == n

\* current_page_num += 1
NextPageNum(n) == n + 1

\* for i in range(CONCURRENT_FETCHES): if current_page_num > MAX: break
BatchHasRoom ==
    Len(batch) < CONCURRENT_FETCHES /\ current_page_num <= MAX_PAGES_TO_FETCH

\* browser.new_page(); tasks.append(fetch_single_page(page, current_page_num))
NewPage ==
    /\ pc = "prepare"
    /\ BatchHasRoom
    /\ open_pages' = open_pages \cup {current_page_num}
    /\ pages_in_batch' = Append(pages_in_batch, current_page_num)
    /\ batch' = Append(batch, current_page_num)
    /\ task' = [task EXCEPT ![current_page_num] = [IdleTask EXCEPT !.pc = "created"]]
    /\ dispatched' = Append(dispatched, current_page_num)
    /\ current_page_num' = NextPageNum(current_page_num)
    /\ UNCHANGED <<pc, browser, close_idx, results, result_idx, dataVars,
                   mainVars, resolved, processed, stop_page, stop_reason, error>>
    /\ UNCHANGED stageVars

\* browser.new_page() raises: the exception leaves the while loop.
NewPageFails ==
    /\ pc = "prepare"
    /\ BatchHasRoom
    /\ error' = "new_page"
    /\ pc' = "finally"
    /\ UNCHANGED <<orchVars, task, dataVars, mainVars, dispatched, resolved,
                   processed, stop_page, stop_reason>>
    /\ UNCHANGED stageVars

\* `if not tasks: break`, else asyncio.gather(*tasks) schedules every
\* coroutine of the batch.
Gather ==
    /\ pc = "prepare"
    /\ ~BatchHasRoom
    /\ IF batch = <<>>
       THEN pc' = "finally" /\ UNCHANGED task
       ELSE /\ task' = [p \in PageNumbers |->
                         IF task[p].pc = "created"
                         THEN [task[p] EXCEPT !.pc = "nav", !.attempt = 1]
                         ELSE task[p]]
            /\ pc' = "gather"
    /\ UNCHANGED <<orchVars, dataVars, mainVars, histVars>>
    /\ UNCHANGED stageVars

\* gather returning as soon as one awaitable has a result.
GatherReady_FirstCompleted == \E i \in 1..Len(batch) : task[batch[i]].pc = "done"

\* gather returns when every awaitable it was given has a result.
GatherReady == \A i \in 1..Len(batch) : task[batch[i]].pc = "done"

\* gather (return_exceptions unset) raises the first exception of a task at
\* once; otherwise it returns the results in the order of the tasks.
GatherReturns ==
    /\ pc = "gather"
    /\ IF \E i \in 1..Len(batch) : task[batch[i]].pc = "raised"
       THEN /\ error' = "fetch"
            /\ pc' = "finally"
            /\ UNCHANGED <<results, close_idx>>
       ELSE /\ GatherReady
            /\ results' = [i \in 1..Len(batch) |-> <<batch[i], task[batch[i]].content>>]
            /\ close_idx' = 1
            /\ pc' = "close"
            /\ UNCHANGED error
    /\ UNCHANGED <<browser, current_page_num, batch, pages_in_batch,
                   open_pages, result_idx, task, dataVars, mainVars,
                   dispatched, resolved, processed, stop_page, stop_reason>>
    /\ UNCHANGED stageVars

\* The closing loop without page.close().
ClosePage_LeavesOpen ==
    /\ pc = "close"
    /\ close_idx <= Len(pages_in_batch)
    /\ close_idx' = close_idx + 1
    /\ IF close_idx = Len(pages_in_batch)
       THEN pc' = "process" /\ result_idx' = 1
       ELSE UNCHANGED <<pc, result_idx>>
    /\ UNCHANGED <<browser, current_page_num, batch, pages_in_batch, open_pages,
                   results, task, dataVars, mainVars, histVars>>
    /\ UNCHANGED stageVars

\* for page in pages_in_batch: await page.close()
ClosePage ==
    /\ pc = "close"
    /\ close_idx <= Len(pages_in_batch)
    /\ open_pages' = open_pages \ {pages_in_batch[close_idx]}
    /\ close_idx' = close_idx + 1
    /\ IF close_idx = Len(pages_in_batch)
       THEN pc' = "process" /\ result_idx' = 1
       ELSE UNCHANGED <<pc, result_idx>>
    /\ UNCHANGED <<browser, current_page_num, batch, pages_in_batch, results,
                   task, dataVars, mainVars, histVars>>
    /\ UNCHANGED stageVars

ClosePageFails ==
    /\ pc = "close"
    /\ close_idx <= Len(pages_in_batch)
    /\ error' = "page_close"
    /\ pc' = "finally"
    /\ UNCHANGED <<orchVars, task, dataVars, mainVars, dispatched, resolved,
                   processed, stop_page, stop_reason>>
    /\ UNCHANGED stageVars

\* StopSignal without the 'no records' phrases.
StopSignal_NoPhrase(content, last_hash) ==
    IF TextLen(content) < MIN_CONTENT_LENGTH
    THEN "short"
    ELSE IF last_hash # None /\ Hash(content) = last_hash
    THEN "duplicate"
    ELSE "none"

\* StopSignal without the duplicate test.
StopSignal_NoDuplicate(content, last_hash) ==
    IF Contains(content, "No Records Found") \/ Contains(content, "No Tenders Available")
    THEN "no_records"
    ELSE IF TextLen(content) < MIN_CONTENT_LENGTH
    THEN "short"
    ELSE "none"

\* StopSignal with `<=` for `<` in the length test.
StopSignal_OffByOne(content, last_hash) ==
    IF Contains(content, "No Records Found") \/ Contains(content, "No Tenders Available")
    THEN "no_records"
    ELSE IF TextLen(content) <= MIN_CONTENT_LENGTH
    THEN "short"
    ELSE IF last_hash # None /\ Hash(content) = last_hash
    THEN "duplicate"
    ELSE "none"

\* The stopping conditions, in the order the code tests them.
StopSignal(content, last_hash) ==
    IF Contains(content, "No Records Found") \/ Contains(content, "No Tenders Available")
    THEN "no_records"
    ELSE IF TextLen(content) < MIN_CONTENT_LENGTH
    THEN "short"
    ELSE IF last_hash # None /\ Hash(content) = last_hash
    THEN "duplicate"
    ELSE "none"

\* last_valid_content_hash after a result with no content was skipped.
HashAfterFailedPage(last_hash) == last_hash

\* A failed page treated as one more stop signal.
FailedPageStops_Break == TRUE

\* Whether a result with no content ends the processing of the batch.
FailedPageStops == FALSE

\* Position after result i was handled without a stop signal.
AfterResult(i) ==
    IF i = Len(results)
    THEN pc' = "after_batch" /\ result_idx' = i
    ELSE pc' = "process" /\ result_idx' = i + 1

\* `if content is None: continue`
SkipFailedPage ==
    /\ pc = "process"
    /\ results[result_idx][2] = None
    /\ processed' = processed \cup {results[result_idx][1]}
    /\ last_valid_content_hash' = HashAfterFailedPage(last_valid_content_hash)
    /\ stop_fetching' = (stop_fetching \/ FailedPageStops)
    /\ IF FailedPageStops
       THEN pc' = "after_batch" /\ UNCHANGED result_idx
       ELSE AfterResult(result_idx)
    /\ UNCHANGED <<orchVars_less_idx, task, all_fetched_content, raw_pages,
                   mainVars, dispatched, resolved, stop_page, stop_reason, error>>
    /\ UNCHANGED stageVars

\* a stopping condition holds: stop_fetching = True; break
StopOnSignal ==
    /\ pc = "process"
    /\ results[result_idx][2] # None
    /\ StopSignal(results[result_idx][2], last_valid_content_hash) # "none"
    /\ stop_fetching' = TRUE
    /\ stop_page' = results[result_idx][1]
    /\ stop_reason' = StopSignal(results[result_idx][2], last_valid_content_hash)
    /\ processed' = processed \cup {results[result_idx][1]}
    /\ pc' = "after_batch"
    /\ UNCHANGED <<orchVars, task, all_fetched_content, last_valid_content_hash,
                   raw_pages, mainVars, dispatched, resolved, error>>
    /\ UNCHANGED stageVars

\* save_path.write_text(content) succeeds
SavePage ==
    /\ pc = "process"
    /\ results[result_idx][2] # None
    /\ StopSignal(results[result_idx][2], last_valid_content_hash) = "none"
    /\ LET page_number == results[result_idx][1]
           content == results[result_idx][2]
       IN /\ raw_pages' = [raw_pages EXCEPT ![page_number] = content]
          /\ all_fetched_content' = [all_fetched_content EXCEPT ![page_number] = content]
          /\ last_valid_content_hash' = Hash(content)
          /\ processed' = processed \cup {page_number}
    /\ AfterResult(result_idx)
    /\ UNCHANGED <<orchVars_less_idx, task, stop_fetching, mainVars,
                   dispatched, resolved, stop_page, stop_reason, error>>
    /\ UNCHANGED stageVars

\* SavePageFails with the hash updated before the write.
SavePageFails_UpdatesHash ==
    /\ pc = "process"
    /\ results[result_idx][2] # None
    /\ StopSignal(results[result_idx][2], last_valid_content_hash) = "none"
    /\ \E left \in {raw_pages[results[result_idx][1]], EmptyText} :
          raw_pages' = [raw_pages EXCEPT ![results[result_idx][1]] = left]
    /\ last_valid_content_hash' = Hash(results[result_idx][2])
    /\ processed' = processed \cup {results[result_idx][1]}
    /\ AfterResult(result_idx)
    /\ UNCHANGED <<orchVars_less_idx, task, all_fetched_content,
                   stop_fetching, mainVars,
                   dispatched, resolved, stop_page, stop_reason, error>>
    /\ UNCHANGED stageVars

\* write_text raises OSError: before the file was opened, or after (the file
\* is then there, truncated).
SavePageFails ==
    /\ pc = "process"
    /\ results[result_idx][2] # None
    /\ StopSignal(results[result_idx][2], last_valid_content_hash) = "none"
    /\ \E left \in {raw_pages[results[result_idx][1]], EmptyText} :
          raw_pages' = [raw_pages EXCEPT ![results[result_idx][1]] = left]
    /\ processed' = processed \cup {results[result_idx][1]}
    /\ AfterResult(result_idx)
    /\ UNCHANGED <<orchVars_less_idx, task, all_fetched_content,
                   last_valid_content_hash, stop_fetching, mainVars,
                   dispatched, resolved, stop_page, stop_reason, error>>
    /\ UNCHANGED stageVars

\* if stop_fetching: break
AfterBatch ==
    /\ pc = "after_batch"
    /\ pc' = IF stop_fetching THEN "finally" ELSE "loop"
    /\ UNCHANGED <<orchVars, task, dataVars, mainVars, histVars>>
    /\ UNCHANGED stageVars

\* The return without the finally clause.
Finally_BrowserLeftOpen ==
    /\ pc = "finally"
    /\ pc' = "returned"
    /\ UNCHANGED <<browser, open_pages, current_page_num, batch, pages_in_batch,
                   close_idx, results, result_idx, task, dataVars, mainVars,
                   histVars>>
    /\ UNCHANGED stageVars

\* finally: if browser: await browser.close();  return all_fetched_content
Finally ==
    /\ pc = "finally"
    /\ browser' = IF browser = "open" THEN "closed" ELSE browser
    /\ open_pages' = {}
    /\ pc' = "returned"
    /\ UNCHANGED <<current_page_num, batch, pages_in_batch, close_idx, results,
                   result_idx, task, dataVars, mainVars, histVars>>
    /\ UNCHANGED stageVars

(***************************************************************************)
(* main                                                                    *)
(***************************************************************************)

fetched_count == Cardinality({p \in PageNumbers : all_fetched_content[p] # None})

\* fetched_count > 0 hands the run to merge_and_cleanup, which decides the
\* outcome; fetched_count = 0 ends it as a failure.
MainAfterFetch ==
    /\ pc = "returned"
    /\ IF fetched_count > 0
       THEN /\ pc' = "merge"
            /\ UNCHANGED mainVars
       ELSE /\ pc' = "finished"
            /\ success' = FALSE
            /\ status_message' = "Fetching completed, but no pages returned content successfully."
    /\ UNCHANGED <<orchVars, task, dataVars, histVars>>
    /\ UNCHANGED stageVars

Next ==
    \/ Launch
    \/ LaunchFails
    \/ WhileCheck
    \/ NewPage
    \/ NewPageFails
    \/ Gather
    \/ \E p \in PageNumbers : \E o \in AttemptOutcomes :
          \E c \in CleanedTexts(o) : Navigate(p, o, c)
    \/ \E p \in PageNumbers : Wake(p)
    \/ GatherReturns
    \/ ClosePage
    \/ ClosePageFails
    \/ SkipFailedPage
    \/ StopOnSignal
    \/ SavePage
    \/ SavePageFails
    \/ AfterBatch
    \/ Finally
    \/ MainAfterFetch

Spec == Init /\ [][Next]_vars

\* Every navigation returns or times out, every sleep ends, and the event
\* loop runs whatever is ready.
SpecFair == Spec /\ WF_vars(Next)

(***************************************************************************)
(* Properties                                                              *)
(***************************************************************************)

\* The run is past its batch loop.
RunEnded == pc \in {"finally", "returned", "merge", "finished"}

\* Results of the current batch the orchestrator has examined.
Examined == {i \in 1..Len(results) : results[i][1] \in processed}

HasNoRecordsSignal(c) ==
    Contains(c, "No Records Found") \/ Contains(c, "No Tenders Available")

\* The abort every stop signal causes: the triggering page and the pages
\* above it have no page file, and nothing beyond the triggering page's
\* batch was or will be dispatched.
AbortSemantics ==
    /\ stop_fetching
    /\ \A p \in PageNumbers : p >= stop_page => raw_pages[p] = NoFile
    /\ pc \in {"after_batch", "finally", "returned", "merge", "finished"}
    /\ \E i \in 1..Len(batch) : batch[i] = stop_page
    /\ Len(dispatched) = batch[Len(batch)]
    /\ current_page_num = batch[Len(batch)] + 1

Examining(i) == pc = "process" /\ result_idx = i /\ i <= Len(results)

\* C2 (general): a fetched page whose hash equals last_valid_content_hash, the
\* hash of the last persisted page, stops the run and is not persisted.
C2_DuplicateStep ==
    \A i \in 1..CONCURRENT_FETCHES :
       (/\ Examining(i)
        /\ results[i][2] # None
        /\ last_valid_content_hash # None
        /\ Hash(results[i][2]) = last_valid_content_hash)
       => /\ stop_fetching'
          /\ stop_page' = results[i][1]
          /\ raw_pages' = raw_pages
          /\ all_fetched_content' = all_fetched_content

\* C2 (the two-page case): page 1 persisted and page 2 fetched with the same
\* bytes: the run stops on page 2 as a duplicate, Page_1.txt is the only page
\* file, and page 3 is never examined.
C2_TwoPageCase ==
    (/\ Len(results) >= 2
     /\ results[1][1] = 1 /\ results[2][1] = 2
     /\ results[1][2] # None /\ results[2][2] = results[1][2]
     /\ all_fetched_content[1] # None
     /\ 2 \in processed)
    => /\ stop_reason = "duplicate" /\ stop_page = 2
       /\ AbortSemantics
       /\ raw_pages[1] = results[1][2]
       /\ \A p \in PageNumbers : p >= 3 => p \notin processed

C2_DuplicateStops == [][C2_DuplicateStep]_vars /\ []C2_TwoPageCase

\* C2 witness: the run ended after page 2 repeated page 1.
C2_Witness ==
    /\ RunEnded
    /\ Len(results) >= 2
    /\ results[1][1] = 1 /\ results[2][1] = 2
    /\ results[1][2] \in ListingTexts /\ results[2][2] = results[1][2]
    /\ all_fetched_content[1] # None
    /\ stop_reason = "duplicate"

\* C3: a processed page shorter than the threshold stops the run with the
\* abort of the other stop signals, and a page stopped as short is shorter
\* than 100 characters.
C3_ShortContentStopsRun ==
    /\ \A i \in Examined :
          (results[i][2] # None /\ TextLen(results[i][2]) < 100)
             => (stop_fetching /\ stop_page = results[i][1])
    /\ stop_reason = "short" =>
          /\ AbortSemantics
          /\ \E i \in Examined : /\ results[i][1] = stop_page
                                 /\ TextLen(results[i][2]) < 100

\* C3 witness: a run that persisted a page ended on a short page, with a
\* fetched listing page above it in the batch.
C3_Witness ==
    /\ pc = "merge"
    /\ stop_reason = "short"
    /\ \E i \in 1..Len(results) :
          results[i][1] > stop_page /\ results[i][2] \in ListingTexts

\* C4 (the step): examining a result with no content changes neither
\* stop_fetching nor last_valid_content_hash nor any file, and moves on to the
\* next result of the batch (or past the batch when it was the last).
C4_SkipStep ==
    \A i \in 1..CONCURRENT_FETCHES :
       (Examining(i) /\ results[i][2] = None)
       => /\ stop_fetching' = stop_fetching
          /\ last_valid_content_hash' = last_valid_content_hash
          /\ raw_pages' = raw_pages
          /\ all_fetched_content' = all_fetched_content
          /\ IF i < Len(results)
             THEN pc' = "process" /\ result_idx' = i + 1
             ELSE pc' = "after_batch"

\* C4 (the run): a run that ended with no stop signal and no exception
\* dispatched every page, whatever pages failed.
C4_RunGoesOn ==
    (RunEnded /\ ~stop_fetching /\ error = "none")
       => (current_page_num = MAX_PAGES_TO_FETCH + 1
           /\ Len(dispatched) = MAX_PAGES_TO_FETCH)

C4_FailedPageSkipped == [][C4_SkipStep]_vars /\ []C4_RunGoesOn

\* C4 witness: the first page of a batch failed, the next one was persisted
\* after it, and the next batch has been dispatched.
C4_Witness ==
    /\ Len(results) >= 2
    /\ results[1][2] = None
    /\ results[1][1] \in processed
    /\ raw_pages[results[2][1]] \in ListingTexts
    /\ Len(dispatched) > results[2][1]
    /\ pc = "gather"

\* C5: a run that ends before MAX_PAGES_TO_FETCH pages were dispatched ended
\* on a stop signal (a failure to start the browser apart, no error ends it),
\* and a run that a stop signal ended is not reported as a failure.
C5_OnlyStopSignalsEndEarly ==
    /\ (RunEnded /\ Len(dispatched) < MAX_PAGES_TO_FETCH /\ error # "launch")
          => stop_fetching
    /\ (pc = "finished" /\ stop_fetching) => success

\* Fetches that fetch_single_page has begun and not returned from.
InFlight == {p \in PageNumbers : task[p].pc \in {"nav", "sleep"}}

InBatch(p) == \E i \in 1..Len(batch) : batch[i] = p

\* C6: at most CONCURRENT_FETCHES fetches are in flight and at most
\* CONCURRENT_FETCHES browser pages are open; a fetch is in flight only while
\* the orchestrator awaits the gather of its own batch, and every fetch
\* dispatched for an earlier batch has returned.
C6_BatchBarrier ==
    /\ Cardinality(InFlight) <= CONCURRENT_FETCHES
    /\ Cardinality(open_pages) <= CONCURRENT_FETCHES
    /\ Len(batch) <= CONCURRENT_FETCHES
    /\ \A p \in InFlight : InBatch(p) /\ pc = "gather"
    /\ \A p \in open_pages : InBatch(p)
    /\ \A i \in 1..Len(dispatched) :
          ~InBatch(dispatched[i]) => dispatched[i] \in resolved

\* C6 witness: a full second batch in flight, one browser page each.
C6_Witness ==
    /\ Cardinality(InFlight) = CONCURRENT_FETCHES
    /\ Cardinality(open_pages) = CONCURRENT_FETCHES
    /\ Len(dispatched) = 2 * CONCURRENT_FETCHES
    /\ \E p \in InFlight : task[p].pc = "sleep"

\* C7 (state): when a stop signal has been found, every fetch dispatched so
\* far has returned (none was cancelled or is still in flight).
C7_AllFetchesCompleted ==
    stop_fetching =>
       /\ InFlight = {}
       /\ \A i \in 1..Len(dispatched) :
             dispatched[i] \in resolved /\ task[dispatched[i]].pc \in {"idle", "done"}
       /\ \A i \in 1..Len(batch) : task[batch[i]].pc = "done"
       /\ InBatch(stop_page)

\* C7 (step): once a stop signal has been found nothing more is dispatched.
C7_NoLaterDispatch ==
    stop_fetching => (dispatched' = dispatched /\ current_page_num' = current_page_num)

C7_BatchGranularCancellation == []C7_AllFetchesCompleted /\ [][C7_NoLaterDispatch]_vars

\* C7 witness: the run ended on a stop signal raised by the first result of a
\* full batch; the other fetch of the batch returned a listing page; pages
\* remain that were never dispatched.
C7_Witness ==
    /\ RunEnded
    /\ stop_fetching
    /\ Len(batch) = CONCURRENT_FETCHES
    /\ stop_page = batch[1]
    /\ task[batch[2]].pc = "done" /\ task[batch[2]].content \in ListingTexts
    /\ Len(dispatched) < MAX_PAGES_TO_FETCH

\* C8 (state): page numbers are dispatched in the order 1, 2, 3, ..., each at
\* most once and none above MAX_PAGES_TO_FETCH, and a run that ended without
\* an exception ended on a stop signal or after MAX_PAGES_TO_FETCH pages.
C8_DispatchOrder ==
    /\ Len(dispatched) <= MAX_PAGES_TO_FETCH
    /\ \A i \in 1..Len(dispatched) : dispatched[i] = i
    /\ current_page_num = Len(dispatched) + 1
    /\ (RunEnded /\ error = "none")
          => (stop_fetching \/ Len(dispatched) = MAX_PAGES_TO_FETCH)

\* C8: under SpecFair (every navigation returns or times out) the
\* orchestrator returns, and C8_DispatchOrder holds throughout.
C8_RunTerminates ==
    /\ <>(pc \in {"returned", "merge", "finished"})
    /\ []C8_DispatchOrder

\* C8 witness: the run returned after dispatching every page, a page of
\* which had failed permanently (and was not dispatched again).
C8_Witness ==
    /\ pc = "returned"
    /\ Len(dispatched) = MAX_PAGES_TO_FETCH
    /\ ~stop_fetching
    /\ error = "none"
    /\ \E i \in 1..Len(results) : results[i][2] = None

\* Attempt counters stay within 1..RETRY_LIMIT while a fetch is in flight.
AttemptsBounded ==
    \A p \in PageNumbers :
       /\ task[p].attempt <= RETRY_LIMIT
       /\ task[p].pc \in {"nav", "sleep"} => task[p].attempt >= 1
       /\ task[p].pc = "sleep" => task[p].attempt < RETRY_LIMIT

\* A successful attempt returns its cleaned text at once.
ReturnsOnFirstSuccess ==
    \A p \in PageNumbers : \A c \in Contents :
       Navigate(p, "ok", c) => (task'[p].pc = "done" /\ task'[p].content = c)

\* A new attempt begins only out of a backoff sleep of 2 ** attempt seconds.
NextAttemptOnlyAfterBackoff ==
    \A p \in PageNumbers :
       (task[p].attempt >= 1 /\ task'[p].attempt = task[p].attempt + 1)
          => (task[p].pc = "sleep" /\ task[p].delay = Pow2(task[p].attempt))

\* C9 as stated: at most RETRY_LIMIT attempts, return on the first success,
\* and after every unsuccessful attempt but the last a backoff sleep precedes
\* the next attempt.
C9_BackoffAfterEveryFailure ==
    /\ []AttemptsBounded
    /\ [][ReturnsOnFirstSuccess]_vars
    /\ [][NextAttemptOnlyAfterBackoff]_vars

\* What follows an unsuccessful attempt that is not the last: after an
\* exception a sleep of 2 ** attempt seconds (2, then 4: doubling) and only
\* then the next attempt; after empty content the next attempt at once.
RetryStep ==
    \A p \in PageNumbers : \A o \in AttemptOutcomes \ {"ok"} :
       (Navigate(p, o, None) /\ task[p].attempt < RETRY_LIMIT)
          => IF o \in Raised
             THEN /\ task'[p].pc = "sleep"
                  /\ task'[p].attempt = task[p].attempt
                  /\ task'[p].delay = Pow2(task[p].attempt)
                  /\ task[p].attempt > 1 => task'[p].delay = 2 * Pow2(task[p].attempt - 1)
             ELSE /\ task'[p].pc = "nav"
                  /\ task'[p].attempt = task[p].attempt + 1
                  /\ task'[p].delay = 0

\* A sleep ends in the next attempt.
WakeStep ==
    \A p \in PageNumbers :
       Wake(p) => (task'[p].pc = "nav" /\ task'[p].attempt = task[p].attempt + 1)

\* C9 amended: at most RETRY_LIMIT attempts, return on the first success,
\* exponential backoff after an attempt that raised, none after an attempt
\* that returned empty content.
C9_BackoffAfterRaisedAttempt ==
    /\ []AttemptsBounded
    /\ [][ReturnsOnFirstSuccess]_vars
    /\ [][RetryStep]_vars
    /\ [][WakeStep]_vars

\* C9 witness: a fetch in its second backoff (4 seconds) beside a fetch of the
\* same batch in its last attempt.
C9_Witness ==
    \E p, q \in PageNumbers :
       /\ task[p].pc = "sleep" /\ task[p].attempt = 2 /\ task[p].delay = 4
       /\ task[q].pc = "nav" /\ task[q].attempt = RETRY_LIMIT

\* C10 (step): fetch_single_page returns no content exactly when its attempt
\* number RETRY_LIMIT (reached only over unsuccessful attempts) was
\* unsuccessful too; a step of a fetch leaves the orchestrator where it is.
C10_ReturnStep ==
    \A p \in PageNumbers :
       /\ (task[p].pc = "nav" /\ task'[p].pc = "done")
             => (task'[p].content = None
                   <=> (task[p].attempt = RETRY_LIMIT
                        /\ \E o \in AttemptOutcomes \ {"ok"} : Navigate(p, o, None)))
       /\ (task[p].pc \in {"nav", "sleep"} /\ task'[p] # task[p])
             => (pc' = pc /\ error' = error)

\* C10 (state): no fetch ends in an exception and no exception of a fetch
\* leaves the gather; a batch with a failed page has its results examined.
C10_NothingRaised ==
    /\ \A p \in PageNumbers : task[p].pc # "raised"
    /\ error # "fetch"
    /\ \A p \in PageNumbers :
          (task[p].pc = "done" /\ task[p].content = None /\ InBatch(p)
             /\ \A i \in 1..Len(batch) : task[batch[i]].pc = "done")
          => pc # "finally" \/ error # "none" \/ stop_fetching \/ p \in processed

C10_PermanentFailureIsAResult == []C10_NothingRaised /\ [][C10_ReturnStep]_vars

\* C10 witness: the orchestrator examines the results of a batch whose first
\* fetch failed permanently and whose second returned a listing page.
C10_Witness ==
    /\ pc = "process"
    /\ Len(results) >= 2
    /\ results[1][2] = None
    /\ results[2][2] \in ListingTexts
    /\ result_idx = 2

(***************************************************************************)
(* merge_and_cleanup                                                       *)
(*                                                                         *)
(* The corpus file is a sequence of blocks; a block records the page index *)
(* of its markers, the content written and how many of the three           *)
(* outfile.write calls of the block went through (3 for a whole block).    *)
(* An OSError of the file system is an outcome of the operation that can   *)
(* raise it; MaxIOErrors bounds how many the two runs meet together.       *)
(***************************************************************************)

MaxIOErrors == 1

\* Page indexes of the files the raw-pages directory can hold when merge
\* is studied on its own: Page_1.txt, Page_2.txt and Page_10.txt.
MergeIndexes == {1, 2, 10}

\* What a page file can hold: a listing page text (save only writes those)
\* or nothing (a write_text that failed after creating the file).
PageFileTexts == ListingTexts \cup {EmptyText}

\* The N of Page_N.txt as f"Page_{page_num}.txt" writes it: decimal digits.
RECURSIVE PageFileName(_)
PageFileName(n) ==
    IF n < 10 THEN <<n>> ELSE Append(PageFileName(n \div 10), n % 10)

\* int() of a run of decimal digits.
RECURSIVE DigitsToInt(_)
DigitsToInt(d) ==
    IF Len(d) = 0 THEN 0
    ELSE 10 * DigitsToInt(SubSeq(d, 1, Len(d) - 1)) + d[Len(d)]

\* Orders names as strings compare: "1" < "10" < "2".
natural_sort_key_Lexical(name) ==
    IF Len(name) = 0 THEN 999999
    ELSE 11 * name[1] + (IF Len(name) > 1 THEN name[2] + 1 ELSE 0)

\* The first number in the filename, 999999 if it has none.
natural_sort_key(name) ==
    IF Len(name) = 0 THEN 999999 ELSE DigitsToInt(name)

\* sorted(RAW_PAGES_DIR.glob("Page_*.txt"), key=natural_sort_key)
RECURSIVE SortedListing(_)
SortedListing(S) ==
    IF S = {} THEN <<>>
    ELSE LET m == CHOOSE x \in S : \A y \in S :
                      natural_sort_key(PageFileName(x))
                          <= natural_sort_key(PageFileName(y))
         IN  <<m>> \o SortedListing(S \ {m})

NoPageFiles_Never(files) == FALSE

\* `if not page_files`
NoPageFiles(files) == Len(files) = 0

AlreadySeen_Never(h, seen) == FALSE

\* `content_hash not in seen_content_hashes`, negated
AlreadySeen(h, seen) == h \in seen

Mergeable_KeepsEmpty(content, seen) == ~AlreadySeen(Hash(content), seen)

\* `if content and content_hash not in seen_content_hashes`
Mergeable(content, seen) ==
    content # EmptyText /\ ~AlreadySeen(Hash(content), seen)

OpenedForWriting_Append(old) == [exists |-> TRUE, blocks |-> old.blocks]

\* open(final_output_path, "w"): the file is created, or truncated.
OpenedForWriting(old) == [exists |-> TRUE, blocks |-> <<>>]

\* The Start marker, the content and the End marker of one page, of which
\* the first `written` reached the file.
Block(page, content, written) ==
    [page |-> page, content |-> content, written |-> written]

\* The file system raises no more than MaxIOErrors errors.
CanFail == Cardinality(io_errors) + Cardinality(first_run.errors) < MaxIOErrors

\* Everything the fetch owns; merge reads none of it.
scrapeVars == <<orchVars, task, all_fetched_content, last_valid_content_hash,
                stop_fetching, histVars>>

page_path == page_files[file_idx]

InLoop == m_pc = "loop" /\ file_idx <= Len(page_files)

\* main calls merge_and_cleanup, which names the day's corpus file and
\* resets its counters.
MergeCall ==
    /\ pc = "merge"
    /\ m_pc = "idle"
    /\ m_pc' = "list"
    /\ page_files' = <<>>
    /\ file_idx' = 1
    /\ seen_content_hashes' = {}
    /\ merged_count' = 0
    /\ final_output_file' = None
    /\ input_files' = raw_pages
    /\ io_errors' = {}
    /\ UNCHANGED <<pc, raw_pages, mainVars, scrapeVars, today, corpus_files,
                   run, first_run>>
    /\ UNCHANGED <<filterVars, dashVars>>

\* The listing; with no page file merge returns (0, None).
MergeList ==
    /\ m_pc = "list"
    /\ page_files' = SortedListing({p \in DOMAIN raw_pages : raw_pages[p] # NoFile})
    /\ m_pc' = IF NoPageFiles(page_files') THEN "returned" ELSE "open"
    /\ UNCHANGED <<pc, raw_pages, mainVars, scrapeVars, today, corpus_files,
                   file_idx, seen_content_hashes, merged_count,
                   final_output_file, run, input_files, io_errors, first_run>>
    /\ UNCHANGED <<filterVars, dashVars>>

\* RAW_PAGES_DIR is not a directory, or glob raises OSError: (0, None).
MergeListFails ==
    /\ m_pc = "list"
    /\ CanFail
    /\ io_errors' = io_errors \cup {<<"list", 0>>}
    /\ m_pc' = "returned"
    /\ UNCHANGED <<pc, raw_pages, mainVars, scrapeVars, today, corpus_files,
                   page_files, file_idx, seen_content_hashes, merged_count,
                   final_output_file, run, input_files, first_run>>
    /\ UNCHANGED <<filterVars, dashVars>>

MergeOpen ==
    /\ m_pc = "open"
    /\ corpus_files' = [corpus_files EXCEPT
                           ![final_output_path(today)] = OpenedForWriting(@)]
    /\ m_pc' = "loop"
    /\ UNCHANGED <<pc, raw_pages, mainVars, scrapeVars, today, page_files,
                   file_idx, seen_content_hashes, merged_count,
                   final_output_file, run, input_files, io_errors, first_run>>
    /\ UNCHANGED <<filterVars, dashVars>>

\* open raises OSError: the outer handler returns (merged_count, None).
MergeOpenFails ==
    /\ m_pc = "open"
    /\ CanFail
    /\ io_errors' = io_errors \cup {<<"open", 0>>}
    /\ m_pc' = "returned"
    /\ UNCHANGED <<pc, raw_pages, mainVars, scrapeVars, today, corpus_files,
                   page_files, file_idx, seen_content_hashes, merged_count,
                   final_output_file, run, input_files, first_run>>
    /\ UNCHANGED <<filterVars, dashVars>>

\* page_path.unlink(): the file goes, or unlink raises OSError, which the
\* handler of the iteration logs.
Unlink(deleted) ==
    IF deleted
    THEN /\ raw_pages' = [raw_pages EXCEPT ![page_path] = NoFile]
         /\ UNCHANGED io_errors
    ELSE /\ CanFail
         /\ io_errors' = io_errors \cup {<<"unlink", page_path>>}
         /\ UNCHANGED raw_pages

\* An iteration that writes the three parts of the block, counts the page
\* and unlinks the file.
MergeAppendPage(deleted) ==
    /\ InLoop
    /\ Mergeable(raw_pages[page_path], seen_content_hashes)
    /\ corpus_files' = [corpus_files EXCEPT ![final_output_path(today)].blocks =
                           Append(@, Block(page_path, raw_pages[page_path], 3))]
    /\ seen_content_hashes' = seen_content_hashes \cup {Hash(raw_pages[page_path])}
    /\ merged_count' = merged_count + 1
    /\ Unlink(deleted)
    /\ file_idx' = file_idx + 1
    /\ UNCHANGED <<pc, mainVars, scrapeVars, m_pc, today, page_files,
                   final_output_file, run, input_files, first_run>>
    /\ UNCHANGED <<filterVars, dashVars>>

\* An iteration over an empty file or a duplicate: logged, then unlinked.
MergeSkipPage(deleted) ==
    /\ InLoop
    /\ ~Mergeable(raw_pages[page_path], seen_content_hashes)
    /\ Unlink(deleted)
    /\ file_idx' = file_idx + 1
    /\ UNCHANGED <<pc, mainVars, scrapeVars, m_pc, today, corpus_files,
                   page_files, seen_content_hashes, merged_count,
                   final_output_file, run, input_files, first_run>>
    /\ UNCHANGED <<filterVars, dashVars>>

\* read_text raises: the handler of the iteration logs it and the loop takes
\* the next file.
MergeReadFails ==
    /\ InLoop
    /\ CanFail
    /\ io_errors' = io_errors \cup {<<"read", page_path>>}
    /\ file_idx' = file_idx + 1
    /\ UNCHANGED <<pc, raw_pages, mainVars, scrapeVars, m_pc, today,
                   corpus_files, page_files, seen_content_hashes, merged_count,
                   final_output_file, run, input_files, first_run>>
    /\ UNCHANGED <<filterVars, dashVars>>

\* One of the three outfile.write calls raises OSError after `written` of
\* them went through: the handler of the iteration logs it, and the rest of
\* the iteration (the remaining writes, the count, the unlink) is skipped.
MergeWriteFails(written) ==
    /\ InLoop
    /\ Mergeable(raw_pages[page_path], seen_content_hashes)
    /\ CanFail
    /\ corpus_files' =
          IF written = 0 THEN corpus_files
          ELSE [corpus_files EXCEPT ![final_output_path(today)].blocks =
                   Append(@, Block(page_path, raw_pages[page_path], written))]
    /\ io_errors' = io_errors \cup {<<"write", page_path>>}
    /\ file_idx' = file_idx + 1
    /\ UNCHANGED <<pc, raw_pages, mainVars, scrapeVars, m_pc, today,
                   page_files, seen_content_hashes, merged_count,
                   final_output_file, run, input_files, first_run>>
    /\ UNCHANGED <<filterVars, dashVars>>

\* The loop is over and the with block closes the file: the return of
\* (merged_count, final_output_path).
MergeClose ==
    /\ m_pc = "loop"
    /\ file_idx > Len(page_files)
    /\ m_pc' = "returned"
    /\ final_output_file' = final_output_path(today)
    /\ UNCHANGED <<pc, raw_pages, mainVars, scrapeVars, today, corpus_files,
                   page_files, file_idx, seen_content_hashes, merged_count,
                   run, input_files, io_errors, first_run>>
    /\ UNCHANGED <<filterVars, dashVars>>

\* Closing the file raises OSError: the outer handler returns
\* (merged_count, None).
MergeCloseFails ==
    /\ m_pc = "loop"
    /\ file_idx > Len(page_files)
    /\ CanFail
    /\ io_errors' = io_errors \cup {<<"close", 0>>}
    /\ m_pc' = "returned"
    /\ UNCHANGED <<pc, raw_pages, mainVars, scrapeVars, today, corpus_files,
                   page_files, file_idx, seen_content_hashes, merged_count,
                   final_output_file, run, input_files, first_run>>
    /\ UNCHANGED <<filterVars, dashVars>>

\* main reads (merged_pages_count, final_output_file) and sets the outcome
\* of the run.
MainAfterMerge ==
    /\ pc = "merge"
    /\ m_pc = "returned"
    /\ pc' = "finished"
    /\ success' = (final_output_file # None /\ merged_count > 0)
    /\ status_message' =
          IF final_output_file # None /\ merged_count > 0
          THEN "Successfully merged unique pages."
          ELSE IF merged_count = 0
          THEN "Fetching completed, but no unique pages were found or merged."
          ELSE "Fetching completed, but merging failed."
    /\ UNCHANGED <<raw_pages, scrapeVars, mergeVars>>
    /\ UNCHANGED <<filterVars, dashVars>>

\* The script runs again, the same day or the next, and its fetch leaves
\* the page files the first run found; main calls merge_and_cleanup again.
LaterRun ==
    /\ pc = "finished"
    /\ m_pc = "returned"
    /\ run = 1
    /\ run' = 2
    /\ \E d \in {today, today + 1} : today' = d
    /\ first_run' = [day |-> today, path |-> final_output_file,
                     corpus |-> corpus_files[final_output_path(today)],
                     errors |-> io_errors]
    /\ raw_pages' = input_files
    /\ pc' = "merge"
    /\ m_pc' = "idle"
    /\ success' = FALSE
    /\ status_message' = "Scraper started."
    /\ UNCHANGED <<scrapeVars, corpus_files, page_files, file_idx,
                   seen_content_hashes, merged_count, final_output_file,
                   input_files, io_errors>>
    /\ UNCHANGED <<filterVars, dashVars>>

\* The fetch is over and left any set of page files; main is about to call
\* merge_and_cleanup.
InitMerge ==
    /\ pc = "merge"
    /\ browser = "closed"
    /\ current_page_num = 1
    /\ batch = <<>>
    /\ pages_in_batch = <<>>
    /\ open_pages = {}
    /\ close_idx = 1
    /\ task = [p \in PageNumbers |-> IdleTask]
    /\ results = <<>>
    /\ result_idx = 1
    /\ raw_pages \in [MergeIndexes -> PageFileTexts \cup {NoFile}]
    /\ all_fetched_content =
          [p \in MergeIndexes |->
              IF raw_pages[p] \in ListingTexts THEN raw_pages[p] ELSE None]
    /\ last_valid_content_hash = None
    /\ stop_fetching = FALSE
    /\ success = FALSE
    /\ status_message = "Scraper started."
    /\ dispatched = <<>>
    /\ resolved = {}
    /\ processed = {}
    /\ stop_page = 0
    /\ stop_reason = "none"
    /\ error = "none"
    /\ MergeNotCalled
    /\ DashboardNotServing
    /\ FilterNotCalled

NextMerge ==
    \/ MergeCall
    \/ MergeList
    \/ MergeListFails
    \/ MergeOpen
    \/ MergeOpenFails
    \/ \E deleted \in BOOLEAN : MergeAppendPage(deleted)
    \/ \E deleted \in BOOLEAN : MergeSkipPage(deleted)
    \/ MergeReadFails
    \/ \E written \in 0..2 : MergeWriteFails(written)
    \/ MergeClose
    \/ MergeCloseFails
    \/ MainAfterMerge
    \/ LaterRun

SpecMerge == InitMerge /\ [][NextMerge]_vars

(***************************************************************************)
(* Properties of merge_and_cleanup                                         *)
(***************************************************************************)

\* The corpus file the current call writes.
Corpus == corpus_files[final_output_path(today)]

\* Positions of the blocks that have both their markers.
WholeBlocks(blocks) == {i \in 1..Len(blocks) : blocks[i].written = 3}

MergeReturned == m_pc = "returned"

\* The page files that existed when the current call listed the directory.
Existed == {p \in DOMAIN input_files : input_files[p] # NoFile}

Listed == {page_files[i] : i \in 1..Len(page_files)}

Failed(op, p) == <<op, p>> \in io_errors

C12_ListedFilesAllDeleted ==
    (MergeReturned /\ final_output_file # None)
        => \A p \in Listed : raw_pages[p] = NoFile

\* An iteration that read an empty page file.
SkipsEmpty ==
    /\ InLoop
    /\ raw_pages[page_path] = EmptyText
    /\ file_idx' = file_idx + 1
    /\ ~(<<"read", page_path>> \in io_errors')

\* C13 as stated: an empty page file adds no block, leaves the merged count
\* as it is, and is deleted.
C13_EmptySkippedAndDeleted ==
    [][SkipsEmpty => /\ corpus_files' = corpus_files
                     /\ merged_count' = merged_count
                     /\ raw_pages'[page_path] = NoFile]_vars

\* C13: an empty page file adds no block and leaves the merged count as it
\* is; it is deleted unless its unlink raises OSError.
C13_EmptySkippedDeletedUnlessUnlinkRaises ==
    [][SkipsEmpty => /\ corpus_files' = corpus_files
                     /\ merged_count' = merged_count
                     /\ \/ raw_pages'[page_path] = NoFile
                        \/ <<"unlink", page_path>> \in io_errors']_vars

\* Page_2.txt was empty, is gone, and the corpus has no block of page 2.
C13_Witness ==
    /\ MergeReturned
    /\ input_files[2] = EmptyText
    /\ raw_pages[2] = NoFile
    /\ input_files[1] = "A"
    /\ merged_count = 1
    /\ \A i \in 1..Len(Corpus.blocks) : Corpus.blocks[i].page # 2

\* The OSErrors that reach the outer handlers of merge_and_cleanup.
CorpusFileError == \E e \in io_errors : e[1] \in {"list", "open", "close"}

\* C14 as stated: a null path with count 0 when no page file existed, a
\* corpus path whenever one existed.
C14_PathWheneverFilesExisted ==
    MergeReturned =>
        /\ Existed = {} => (final_output_file = None /\ merged_count = 0)
        /\ Existed # {} => final_output_file # None

\* C14: merge_and_cleanup returns (merged count, path): a null path with
\* count 0 when no page file existed; the day's corpus path, with the number
\* of blocks it appended, whenever a page file existed and listing, opening
\* and closing raised no OSError, also when nothing was merged; and a null
\* path when one of them raised.
C14_ReturnValue ==
    MergeReturned =>
        /\ Existed = {} => (final_output_file = None /\ merged_count = 0)
        /\ (Existed # {} /\ ~CorpusFileError) =>
              /\ final_output_file = final_output_path(today)
              /\ merged_count = Cardinality(WholeBlocks(Corpus.blocks))
        /\ CorpusFileError => final_output_file = None

\* Only empty page files: a corpus path and a count of 0.
C14_Witness ==
    /\ MergeReturned
    /\ Existed # {}
    /\ merged_count = 0
    /\ final_output_file # None

Ascending(seq) == \A i, j \in 1..Len(seq) : i < j => seq[i] < seq[j]

BlockPages(blocks) == [i \in 1..Len(blocks) |-> blocks[i].page]

\* Page files of lower index that hold the content of a block.
LowerTwins(b) == {p \in Existed : p < b.page /\ input_files[p] = b.content}

Count(b, blocks) == Cardinality({i \in 1..Len(blocks) : blocks[i] = b})

\* The same blocks, whatever their order.
SameBlocks(c1, c2) ==
    /\ c1.exists = c2.exists
    /\ Len(c1.blocks) = Len(c2.blocks)
    /\ \A i \in 1..Len(c1.blocks) :
          Count(c1.blocks[i], c1.blocks) = Count(c1.blocks[i], c2.blocks)

\* The errors that change what a call writes to the corpus.
CorpusErrors(errors) == {e \in errors : e[1] # "unlink"}

C17_CompletedCorpusNeverMutated ==
    (run = 2 /\ first_run.path # None)
        => corpus_files[first_run.path] = first_run.corpus

\* C17: the corpus file a merge completed is not changed by a run on a
\* later calendar day, which writes that day's file; a second run on the
\* same day truncates and rewrites it.
C17_OtherDaysCorpusKept ==
    (run = 2 /\ first_run.path # None /\ today # first_run.day)
        => corpus_files[first_run.path] = first_run.corpus

\* The next day's run has written its own corpus beside the first one.
C17_Witness ==
    /\ run = 2
    /\ MergeReturned
    /\ today # first_run.day
    /\ first_run.path # None
    /\ final_output_file # None
    /\ final_output_file # first_run.path
    /\ Len(first_run.corpus.blocks) > 0
    /\ Len(Corpus.blocks) > 0

\* C18: when merge_and_cleanup ends every Start marker of the corpus is
\* followed by the page's content and its End marker, and the loop has gone
\* through every listed file, whatever read, write or delete failed.
C18_NoPartialBlock ==
    MergeReturned =>
        /\ \A path \in CorpusPaths :
              \A i \in 1..Len(corpus_files[path].blocks) :
                  corpus_files[path].blocks[i].written = 3
        /\ (Corpus.exists /\ ~Failed("open", 0) /\ Listed # {})
              => file_idx = Len(page_files) + 1

(***************************************************************************)
(* Properties of main after a fatal error of the orchestration             *)
(***************************************************************************)

\* C19: once an error has left the batch loop (or the browser failed to
\* launch), main ends the run as a failure without merging, and every page
\* persisted before the error still has its file.
C19_FatalErrorIsRunFailure ==
    (error # "none" /\ pc \in {"merge", "finished"})
        => /\ pc = "finished"
           /\ success = FALSE
           /\ \A p \in PageNumbers :
                 all_fetched_content[p] # None => raw_pages[p] # NoFile

(***************************************************************************)
(* Text: what filter_engine.py does with strings, character by character.  *)
(***************************************************************************)

Char(s, i) == SubSeq(s, i, i)

UpperCase == "ABCDEFGHIJKLMNOPQRSTUVWXYZ"
LowerCase == "abcdefghijklmnopqrstuvwxyz"
DecimalDigits == "0123456789"

\* Position of a character in an alphabet, 0 if it is not there.
PosIn(c, alphabet) ==
    LET P == {i \in 1..Len(alphabet) : Char(alphabet, i) = c}
    IN  IF P = {} THEN 0 ELSE CHOOSE i \in P : TRUE

LowerChar(c) ==
    LET u == PosIn(c, UpperCase) IN IF u > 0 THEN Char(LowerCase, u) ELSE c

\* str.lower()
RECURSIVE Lower(_)
Lower(s) ==
    IF Len(s) = 0 THEN ""
    ELSE LowerChar(Char(s, 1)) \o Lower(SubSeq(s, 2, Len(s)))

StartsAt(s, i, m) ==
    i + Len(m) - 1 <= Len(s) /\ SubSeq(s, i, i + Len(m) - 1) = m

\* str.find(m, i), counting from 1; 0 when m does not occur.
IndexFrom(s, m, i) ==
    LET J == {j \in i..(Len(s) - Len(m) + 1) : StartsAt(s, j, m)}
    IN  IF J = {} THEN 0 ELSE CHOOSE j \in J : \A k \in J : j <= k

Find(s, m) == IndexFrom(s, m, 1)

\* `needle in hay`
IsSubstring(needle, hay) == Find(hay, needle) > 0

IsSpace(c) == c \in {" ", "\n", "\t"}

\* str.strip()
Strip(s) ==
    LET N == {i \in 1..Len(s) : ~IsSpace(Char(s, i))}
    IN  IF N = {} THEN ""
        ELSE SubSeq(s, CHOOSE i \in N : \A k \in N : i <= k,
                       CHOOSE i \in N : \A k \in N : i >= k)

\* str.split(m)
RECURSIVE SplitOn(_, _)
SplitOn(s, m) ==
    LET j == Find(s, m) IN
    IF j = 0 THEN <<s>>
    ELSE <<SubSeq(s, 1, j - 1)>> \o SplitOn(SubSeq(s, j + Len(m), Len(s)), m)

IsDigits(s) ==
    Len(s) > 0 /\ \A i \in 1..Len(s) : PosIn(Char(s, i), DecimalDigits) > 0

\* int() of a string of decimal digits.
RECURSIVE ToInt(_)
ToInt(s) ==
    IF Len(s) = 0 THEN 0
    ELSE 10 * ToInt(SubSeq(s, 1, Len(s) - 1))
            + PosIn(Char(s, Len(s)), DecimalDigits) - 1

(***************************************************************************)
(* Dates: datetime.strptime(...).date(), a date being the number yyyymmdd  *)
(* and NoDate standing for the ValueError strptime raises.                 *)
(***************************************************************************)

NoDate == 0

MonthAbbr == <<"jan", "feb", "mar", "apr", "may", "jun",
               "jul", "aug", "sep", "oct", "nov", "dec">>

\* %b: the abbreviated month name, in any case; 0 if it is none.
MonthOf(name) ==
    LET M == {i \in 1..12 : MonthAbbr[i] = Lower(name)}
    IN  IF M = {} THEN 0 ELSE CHOOSE i \in M : TRUE

DaysInMonth(y, m) ==
    IF m = 2
    THEN IF (y % 4 = 0 /\ y % 100 # 0) \/ y % 400 = 0 THEN 29 ELSE 28
    ELSE IF m \in {4, 6, 9, 11} THEN 30 ELSE 31

MakeDate(y, m, d) ==
    IF y >= 1 /\ m \in 1..12 /\ d \in 1..DaysInMonth(y, m)
    THEN y * 10000 + m * 100 + d
    ELSE NoDate

\* strptime(s, "%d-%b-%Y")
strptime_tender(s) ==
    LET parts == SplitOn(s, "-") IN
    IF /\ Len(parts) = 3
       /\ IsDigits(parts[1]) /\ Len(parts[1]) <= 2
       /\ MonthOf(parts[2]) > 0
       /\ IsDigits(parts[3]) /\ Len(parts[3]) = 4
    THEN MakeDate(ToInt(parts[3]), MonthOf(parts[2]), ToInt(parts[1]))
    ELSE NoDate

\* strptime(s, "%Y-%m-%d")
strptime_filter(s) ==
    LET parts == SplitOn(s, "-") IN
    IF /\ Len(parts) = 3
       /\ IsDigits(parts[1]) /\ Len(parts[1]) = 4
       /\ IsDigits(parts[2]) /\ Len(parts[2]) <= 2
       /\ IsDigits(parts[3]) /\ Len(parts[3]) <= 2
    THEN MakeDate(ToInt(parts[1]), ToInt(parts[2]), ToInt(parts[3]))
    ELSE NoDate

(***************************************************************************)
(* Regular expressions, for the patterns the model uses: letters, digits   *)
(* and spaces match themselves in either case, "." matches any character   *)
(* but a newline, and a "[" opens a character set that nothing closes, on  *)
(* which re.search raises re.error.                                        *)
(***************************************************************************)

re_error(pattern) == IsSubstring("[", pattern)

\* re.search(pattern, text, re.IGNORECASE) of a well-formed pattern
re_search(pattern, text) ==
    \E i \in 1..(Len(text) - Len(pattern) + 1) :
        \A k \in 1..Len(pattern) :
            \/ Char(pattern, k) = "." /\ Char(text, i + k - 1) # "\n"
            \/ LowerChar(Char(pattern, k)) = LowerChar(Char(text, i + k - 1))

(***************************************************************************)
(* filter_engine.py                                                        *)
(***************************************************************************)

\* The list of filter_engine.py:11-19, shortened and in its order.
INDIAN_STATES == <<"Assam", "Kerala", "Madhya Pradesh", "Maharashtra", "Tamil Nadu">>

TENDER_START == "--- TENDER START ---"
TENDER_END == "--- TENDER END ---"
NA == "N/A"

\* re.sub(r"--- TENDER END ---.*", "", raw_block, flags=re.DOTALL).strip()
BeforeTenderEnd(raw_block) ==
    LET j == Find(raw_block, TENDER_END)
    IN  Strip(IF j = 0 THEN raw_block ELSE SubSeq(raw_block, 1, j - 1))

\* The blocks of a source file that was read; [] for a file that is not
\* there.
parse_tender_blocks_from_tagged_file(file) ==
    IF ~file.exists THEN <<>>
    ELSE LET raw_blocks == SelectSeq(SplitOn(file.text, TENDER_START),
                                     LAMBDA block : Strip(block) # "")
             cut == [i \in 1..Len(raw_blocks) |-> BeforeTenderEnd(raw_blocks[i])]
         IN  SelectSeq(cut, LAMBDA block_content : block_content # "")

\* The first place from i on where s reads m, m being in lower case and the
\* case of s ignored; 0 when there is none.
IndexFromAnyCase(s, m, i) ==
    LET J == {j \in i..(Len(s) - Len(m) + 1) :
                 \A k \in 1..Len(m) : LowerChar(Char(s, j + k - 1)) = Char(m, k)}
    IN  IF J = {} THEN 0 ELSE CHOOSE j \in J : \A k \in J : j <= k

\* TAG_REGEX[tag].findall(block_text), each match stripped: the text
\* between an opening tag, in any case, and the first closing tag after it.
RECURSIVE FindAllTag(_, _)
FindAllTag(block_text, tag) ==
    LET open == "<" \o tag \o ">"
        close == "</" \o tag \o ">"
        i == IndexFromAnyCase(block_text, open, 1)
        j == IF i = 0 THEN 0
             ELSE IndexFromAnyCase(block_text, close, i + Len(open))
    IN  IF i = 0 \/ j = 0 THEN <<>>
        ELSE <<Strip(SubSeq(block_text, i + Len(open), j - 1))>>
                \o FindAllTag(SubSeq(block_text, j + Len(close), Len(block_text)), tag)

\* \w
IsWordChar(c) ==
    \/ PosIn(LowerChar(c), LowerCase) > 0
    \/ PosIn(c, DecimalDigits) > 0
    \/ c = "_"

\* re.search(r'\b' + re.escape(state_name) + r'\b', department, re.IGNORECASE)
WordMatch(state_name, department) ==
    LET n == Lower(state_name)
        t == department
    IN  \E i \in 1..(Len(t) - Len(n) + 1) :
            /\ \A k \in 1..Len(n) : LowerChar(Char(t, i + k - 1)) = Char(n, k)
            /\ i = 1 \/ ~IsWordChar(Char(t, i - 1))
            /\ i + Len(n) > Len(t) \/ ~IsWordChar(Char(t, i + Len(n)))

\* The first state of INDIAN_STATES the department names, N/A if none.
StateOf(department) ==
    LET M == {k \in 1..Len(INDIAN_STATES) : WordMatch(INDIAN_STATES[k], department)}
    IN  IF M = {} THEN NA
        ELSE INDIAN_STATES[CHOOSE k \in M : \A l \in M : k <= l]

extract_tender_info_from_tagged_block(block_text) ==
    LET dates == FindAllTag(block_text, "date")
        First(tag) == LET found == FindAllTag(block_text, tag)
                      IN  IF found = <<>> THEN NA ELSE found[1]
        department == First("department")
    IN  [start_date   |-> IF Len(dates) > 0 THEN dates[1] ELSE NA,
         end_date     |-> IF Len(dates) > 1 THEN dates[2] ELSE NA,
         opening_date |-> IF Len(dates) > 2 THEN dates[3] ELSE NA,
         title        |-> First("title"),
         tender_id    |-> First("id"),
         department   |-> department,
         state        |-> IF department # NA THEN StateOf(department) ELSE NA,
         link         |-> First("link")]

StatePasses_CaseSensitive(tender, state_filter) ==
    state_filter = "" \/ IsSubstring(state_filter, tender.state)

\* `if state_filter and state_filter.lower() not in tender["state"].lower()`
StatePasses(tender, state_filter) ==
    state_filter = "" \/ IsSubstring(Lower(state_filter), Lower(tender.state))

\* The date of the record's start_date, NoDate when it is absent or does
\* not parse.
tender_publish_date(tender) ==
    IF tender.start_date # "" /\ tender.start_date # NA
    THEN strptime_tender(SplitOn(tender.start_date, " ")[1])
    ELSE NoDate

DatePasses_BoundsExcluded(tender, start_date_str, end_date_str) ==
    LET published == tender_publish_date(tender)
        filter_start_date == strptime_filter(start_date_str)
        filter_end_date == strptime_filter(end_date_str)
    IN  /\ ~(/\ start_date_str # "" /\ published # NoDate
             /\ filter_start_date # NoDate
             /\ published <= filter_start_date)
        /\ ~(/\ end_date_str # "" /\ published # NoDate
             /\ filter_end_date # NoDate
             /\ published >= filter_end_date)

DatePasses_UndatedExcluded(tender, start_date_str, end_date_str) ==
    LET published == tender_publish_date(tender)
        filter_start_date == strptime_filter(start_date_str)
        filter_end_date == strptime_filter(end_date_str)
    IN  /\ ~(/\ start_date_str # ""
             /\ filter_start_date # NoDate
             /\ published < filter_start_date)
        /\ ~(/\ end_date_str # "" /\ published # NoDate
             /\ filter_end_date # NoDate
             /\ published > filter_end_date)

\* The two date tests; a bound that is empty or does not parse is skipped.
\* filter_engine.py:131-138 writes each test as a one-line `try:`, the
\* comparison on the next line at the indentation of the `try`, then
\* `except ValueError: pass`; as committed this is a SyntaxError and the
\* module does not import.  The comparison is read here as the rest of the
\* try suite, which is the only reading under which the function exists.
DatePasses(tender, start_date_str, end_date_str) ==
    LET published == tender_publish_date(tender)
        filter_start_date == strptime_filter(start_date_str)
        filter_end_date == strptime_filter(end_date_str)
    IN  /\ ~(/\ start_date_str # "" /\ published # NoDate
             /\ filter_start_date # NoDate
             /\ published < filter_start_date)
        /\ ~(/\ end_date_str # "" /\ published # NoDate
             /\ filter_end_date # NoDate
             /\ published > filter_end_date)

search_content(tender) ==
    tender.title \o " " \o tender.tender_id \o " " \o tender.department
        \o " " \o tender.state \o " " \o tender.link

\* any(re.search(kw, ...) for kw in keywords): the patterns are tried in
\* order up to the first that matches; a malformed one that is reached
\* raises re.error.
RECURSIVE AnyRegex(_, _)
AnyRegex(keywords, text) ==
    IF keywords = <<>> THEN "no match"
    ELSE IF re_error(Head(keywords)) THEN "re.error"
    ELSE IF re_search(Head(keywords), text) THEN "match"
    ELSE AnyRegex(Tail(keywords), text)

KeywordsPass_CaseSensitive(tender, keywords, use_regex) ==
    IF keywords = <<>> THEN TRUE
    ELSE IF use_regex THEN AnyRegex(keywords, search_content(tender)) = "match"
    ELSE \E k \in 1..Len(keywords) :
             IsSubstring(keywords[k], search_content(tender))

KeywordsPass_EmptyListMatchesNothing(tender, keywords, use_regex) ==
    IF use_regex THEN AnyRegex(keywords, search_content(tender)) = "match"
    ELSE \E k \in 1..Len(keywords) :
             IsSubstring(Lower(keywords[k]), Lower(search_content(tender)))

\* `if keywords:` and what follows it.
KeywordsPass(tender, keywords, use_regex) ==
    IF keywords = <<>> THEN TRUE
    ELSE IF use_regex THEN AnyRegex(keywords, search_content(tender)) = "match"
    ELSE \E k \in 1..Len(keywords) :
             IsSubstring(Lower(keywords[k]), Lower(search_content(tender)))

matches_filters_AnyHolds(tender, c) ==
    \/ StatePasses(tender, c.state)
    \/ DatePasses(tender, c.start_date, c.end_date)
    \/ KeywordsPass(tender, c.keywords, c.use_regex)

\* False as soon as one of the three tests fails, True after all of them.
matches_filters(tender, c) ==
    /\ StatePasses(tender, c.state)
    /\ DatePasses(tender, c.start_date, c.end_date)
    /\ KeywordsPass(tender, c.keywords, c.use_regex)

(***************************************************************************)
(* run_filter                                                              *)
(***************************************************************************)

\* Longest source file, in delimited pieces.
MaxBlocks == 2

\* Tagged block texts: a full record, one with upper-case tags and another
\* state, one with no tag at all, one whose date does not parse, and one
\* whose date and title tags hold nothing.
TenderBodies == {
    "<Date>10-Apr-2025 09:00 AM</Date><Title>Road Work</Title><Department>PWD Kerala</Department>",
    "<DATE>15-Mar-2025</DATE><Title> Bridge </Title><Department>Govt of Maharashtra</Department>",
    "tender without tags",
    "<Date>soon</Date><Title>road survey</Title><ID>K9</ID>",
    "<Date></Date><Title> </Title><Department>KeralaPWD</Department>" }

\* The pieces a source file is made of: delimited blocks, a block with no
\* end delimiter and a block with nothing between its delimiters.
SourcePieces ==
    {TENDER_START \o "\n" \o b \o "\n" \o TENDER_END \o "\n" : b \in TenderBodies}
        \cup {TENDER_START \o "\n" \o "<Title>Road Work</Title>" \o "\n",
              TENDER_START \o "\n" \o TENDER_END \o "\n"}

RECURSIVE Concat(_)
Concat(pieces) ==
    IF pieces = <<>> THEN "" ELSE Head(pieces) \o Concat(Tail(pieces))

SourceTexts ==
    {Concat(pieces) : pieces \in UNION {[1..k -> SourcePieces] : k \in 0..MaxBlocks}}

\* The criteria a caller can pass.
FilterCriteria ==
    [keywords : {<<>>, <<"road">>, <<"bridge", "ro.d">>, <<"[", "road">>,
                 <<"road", "[">>},
     use_regex : BOOLEAN,
     state : {"", "kerala", "Maharashtra"},
     start_date : {"", "2025-04-01", "2025-04-10", "April"},
     end_date : {"", "2025-04-30", "2025-04-10"}]

(***************************************************************************)
(* The three functions of the engine over the texts, blocks, records and   *)
(* criteria above, each value computed once.                               *)
(***************************************************************************)

parse_table ==
    [t \in SourceTexts |->
        parse_tender_blocks_from_tagged_file([exists |-> TRUE, text |-> t])]

BlockTexts ==
    UNION {{parse_table[t][i] : i \in 1..Len(parse_table[t])} : t \in SourceTexts}

extract_table ==
    [block_text \in BlockTexts |-> extract_tender_info_from_tagged_block(block_text)]

ParsedTenders == {extract_table[block_text] : block_text \in BlockTexts}

matches_table ==
    [call \in {<<tender, c>> : tender \in ParsedTenders, c \in FilterCriteria} |->
        matches_filters(call[1], call[2])]

\* What parse_tender_blocks_from_tagged_file returns for the source file.
ParsedBlocks(file) == IF file.exists THEN parse_table[file.text] ELSE <<>>

\* run_filter is called and parses the source file.
RunFilter ==
    /\ f_pc = "idle"
    /\ tagged_blocks' = ParsedBlocks(tender_file)
    /\ read_failed' = ~tender_file.exists
    /\ block_idx' = 1
    /\ matching_tender_dictionaries' = <<>>
    /\ f_pc' = "loop"
    /\ UNCHANGED <<tender_file, criteria, result_file, other>>
    /\ UNCHANGED <<pc, raw_pages, mainVars, scrapeVars, mergeVars, dashVars>>

\* read_text raises: the parser prints the error and returns [].
RunFilterReadFails ==
    /\ f_pc = "idle"
    /\ tender_file.exists
    /\ tagged_blocks' = <<>>
    /\ read_failed' = TRUE
    /\ block_idx' = 1
    /\ matching_tender_dictionaries' = <<>>
    /\ f_pc' = "loop"
    /\ UNCHANGED <<tender_file, criteria, result_file, other>>
    /\ UNCHANGED <<pc, raw_pages, mainVars, scrapeVars, mergeVars, dashVars>>

\* extract_tender_info_from_tagged_block(block_text) of the iteration.
tender_info ==
    LET block_text == tagged_blocks[block_idx] IN
    IF block_text \in BlockTexts THEN extract_table[block_text]
    ELSE extract_tender_info_from_tagged_block(block_text)

\* An iteration over a block whose record matches.
FilterKeep ==
    /\ f_pc = "loop"
    /\ block_idx <= Len(tagged_blocks)
    /\ matches_table[<<tender_info, criteria>>]
    /\ matching_tender_dictionaries' = Append(matching_tender_dictionaries, tender_info)
    /\ block_idx' = block_idx + 1
    /\ UNCHANGED <<f_pc, tender_file, criteria, tagged_blocks, result_file,
                   other, read_failed>>
    /\ UNCHANGED <<pc, raw_pages, mainVars, scrapeVars, mergeVars, dashVars>>

\* An iteration over a block whose record does not match.
FilterDrop ==
    /\ f_pc = "loop"
    /\ block_idx <= Len(tagged_blocks)
    /\ ~matches_table[<<tender_info, criteria>>]
    /\ block_idx' = block_idx + 1
    /\ UNCHANGED <<f_pc, tender_file, criteria, tagged_blocks,
                   matching_tender_dictionaries, result_file, other,
                   read_failed>>
    /\ UNCHANGED <<pc, raw_pages, mainVars, scrapeVars, mergeVars, dashVars>>

OpenedForDump_KeepsContent(old) ==
    [exists |-> TRUE, complete |-> FALSE, tenders |-> old.tenders]

\* open(output_path, "w"): the file is created, or cut to nothing.
OpenedForDump(old) == [exists |-> TRUE, complete |-> FALSE, tenders |-> <<>>]

\* The file after json.dump wrote `out` from the start of it and it was
\* closed.  The file is counted in records: a write replaces as many as it
\* holds, and what the file held beyond them stays (nothing, when no one
\* else wrote to it since the open).
Dumped(old, out) ==
    [exists |-> TRUE,
     complete |-> Len(old.tenders) <= Len(out),
     tenders |-> out \o SubSeq(old.tenders, Len(out) + 1, Len(old.tenders))]

\* The loop is over: the output folder is made and the file opened.
FilterOpen ==
    /\ f_pc = "loop"
    /\ block_idx > Len(tagged_blocks)
    /\ result_file' = OpenedForDump(result_file)
    /\ f_pc' = "dump"
    /\ UNCHANGED <<tender_file, criteria, tagged_blocks, block_idx,
                   matching_tender_dictionaries, other, read_failed>>
    /\ UNCHANGED <<pc, raw_pages, mainVars, scrapeVars, mergeVars, dashVars>>

\* mkdir or open raises: run_filter raises and the file is as it was.
FilterOpenFails ==
    /\ f_pc = "loop"
    /\ block_idx > Len(tagged_blocks)
    /\ f_pc' = "raised"
    /\ UNCHANGED <<tender_file, criteria, tagged_blocks, block_idx,
                   matching_tender_dictionaries, result_file, other,
                   read_failed>>
    /\ UNCHANGED <<pc, raw_pages, mainVars, scrapeVars, mergeVars, dashVars>>

\* json.dump of the matches, the close of the file and the return of its
\* path.
FilterDump ==
    /\ f_pc = "dump"
    /\ result_file' = Dumped(result_file, matching_tender_dictionaries)
    /\ f_pc' = "returned"
    /\ UNCHANGED <<tender_file, criteria, tagged_blocks, block_idx,
                   matching_tender_dictionaries, other, read_failed>>
    /\ UNCHANGED <<pc, raw_pages, mainVars, scrapeVars, mergeVars, dashVars>>

\* json.dump raises: run_filter raises IOError and leaves the file cut
\* short.
FilterDumpFails ==
    /\ f_pc = "dump"
    /\ f_pc' = "raised"
    /\ UNCHANGED <<tender_file, criteria, tagged_blocks, block_idx,
                   matching_tender_dictionaries, result_file, other,
                   read_failed>>
    /\ UNCHANGED <<pc, raw_pages, mainVars, scrapeVars, mergeVars, dashVars>>

\* The dashboard is about to call run_filter on some source file with some
\* criteria; no scrape is running.
InitFilter ==
    /\ pc = "launch"
    /\ browser = None
    /\ current_page_num = 1
    /\ batch = <<>>
    /\ pages_in_batch = <<>>
    /\ open_pages = {}
    /\ close_idx = 1
    /\ task = [p \in PageNumbers |-> IdleTask]
    /\ results = <<>>
    /\ result_idx = 1
    /\ all_fetched_content = [p \in PageNumbers |-> None]
    /\ last_valid_content_hash = None
    /\ stop_fetching = FALSE
    /\ raw_pages = [p \in PageNumbers |-> NoFile]
    /\ success = FALSE
    /\ status_message = "Scraper started."
    /\ dispatched = <<>>
    /\ resolved = {}
    /\ processed = {}
    /\ stop_page = 0
    /\ stop_reason = "none"
    /\ error = "none"
    /\ MergeNotCalled
    /\ DashboardNotServing
    /\ f_pc = "idle"
    /\ tender_file \in {[exists |-> TRUE, text |-> t] : t \in SourceTexts}
                          \cup {[exists |-> FALSE, text |-> ""]}
    /\ criteria \in FilterCriteria
    /\ tagged_blocks = <<>>
    /\ block_idx = 1
    /\ matching_tender_dictionaries = <<>>
    /\ result_file = NoResult
    /\ other = OtherIdle
    /\ read_failed = FALSE

NextFilter ==
    \/ RunFilter
    \/ RunFilterReadFails
    \/ FilterKeep
    \/ FilterDrop
    \/ FilterOpen
    \/ FilterOpenFails
    \/ FilterDump
    \/ FilterDumpFails

SpecFilter == InitFilter /\ [][NextFilter]_vars

(***************************************************************************)
(* Two calls of run_filter with one filter_name on one source file: the    *)
(* call followed statement by statement above and another one, of which    *)
(* only the two statements that touch the result file are told apart.      *)
(* Nothing in run_filter or in run_filter_submit orders the two.           *)
(***************************************************************************)

\* What the loop of run_filter collects from a source file.
FilterOutput(file, c, failed) ==
    IF failed THEN <<>>
    ELSE LET blocks == ParsedBlocks(file) IN
         SelectSeq([i \in 1..Len(blocks) |-> extract_table[blocks[i]]],
                   LAMBDA t : matches_table[<<t, c>>])

\* The criteria of the calls that share a filter_name.
RerunCriteria ==
    {NoCriteria,
     [NoCriteria EXCEPT !.keywords = <<"road">>],
     [NoCriteria EXCEPT !.state = "kerala"]}

\* The other call parses the source file and runs its loop.
OtherRun(c, failed) ==
    /\ other.pc = "idle"
    /\ failed \/ tender_file.exists
    /\ other' = [pc |-> "loop", criteria |-> c,
                 out |-> FilterOutput(tender_file, c, failed),
                 read_failed |-> failed,
                 ended_before |-> FALSE,
                 started_after |-> f_pc \in {"returned", "raised"}]
    /\ UNCHANGED <<f_pc, tender_file, criteria, tagged_blocks, block_idx,
                   matching_tender_dictionaries, result_file, read_failed>>
    /\ UNCHANGED <<pc, raw_pages, mainVars, scrapeVars, mergeVars, dashVars>>

\* The other call opens the result file.
OtherOpen ==
    /\ other.pc = "loop"
    /\ result_file' = OpenedForDump(result_file)
    /\ other' = [other EXCEPT !.pc = "dump"]
    /\ UNCHANGED <<f_pc, tender_file, criteria, tagged_blocks, block_idx,
                   matching_tender_dictionaries, read_failed>>
    /\ UNCHANGED <<pc, raw_pages, mainVars, scrapeVars, mergeVars, dashVars>>

\* The other call dumps its matches, closes the file and returns.
OtherDump ==
    /\ other.pc = "dump"
    /\ result_file' = Dumped(result_file, other.out)
    /\ other' = [other EXCEPT !.pc = "returned",
                              !.ended_before = (f_pc = "idle")]
    /\ UNCHANGED <<f_pc, tender_file, criteria, tagged_blocks, block_idx,
                   matching_tender_dictionaries, read_failed>>
    /\ UNCHANGED <<pc, raw_pages, mainVars, scrapeVars, mergeVars, dashVars>>

\* No scrape is running and two requests for one filter_name are about to
\* be served.
InitSameName ==
    /\ pc = "launch"
    /\ browser = None
    /\ current_page_num = 1
    /\ batch = <<>>
    /\ pages_in_batch = <<>>
    /\ open_pages = {}
    /\ close_idx = 1
    /\ task = [p \in PageNumbers |-> IdleTask]
    /\ results = <<>>
    /\ result_idx = 1
    /\ all_fetched_content = [p \in PageNumbers |-> None]
    /\ last_valid_content_hash = None
    /\ stop_fetching = FALSE
    /\ raw_pages = [p \in PageNumbers |-> NoFile]
    /\ success = FALSE
    /\ status_message = "Scraper started."
    /\ dispatched = <<>>
    /\ resolved = {}
    /\ processed = {}
    /\ stop_page = 0
    /\ stop_reason = "none"
    /\ error = "none"
    /\ MergeNotCalled
    /\ DashboardNotServing
    /\ f_pc = "idle"
    /\ tender_file \in {[exists |-> TRUE, text |-> t] : t \in SourceTexts}
                          \cup {[exists |-> FALSE, text |-> ""]}
    /\ criteria \in RerunCriteria
    /\ tagged_blocks = <<>>
    /\ block_idx = 1
    /\ matching_tender_dictionaries = <<>>
    /\ result_file = NoResult
    /\ other = OtherIdle
    /\ read_failed = FALSE

NextSameName ==
    \/ NextFilter
    \/ \E c \in RerunCriteria, failed \in BOOLEAN : OtherRun(c, failed)
    \/ OtherOpen
    \/ OtherDump

SpecSameName == InitSameName /\ [][NextSameName]_vars

(***************************************************************************)
(* run_filter called on the day's corpus file while merge_and_cleanup may  *)
(* be writing it.  run_filter_submit only asks that the file exists        *)
(* (dashboard.py, is_file), and the file exists from the open of           *)
(* merge_and_cleanup on.                                                   *)
(***************************************************************************)

\* page_path.stem.split('_')[-1]: the N of Page_N.txt, as text.
RECURSIVE PageStem(_)
PageStem(n) ==
    IF n < 10 THEN Char(DecimalDigits, n + 1)
    ELSE PageStem(n \div 10) \o Char(DecimalDigits, (n % 10) + 1)

StartMarker(page) ==
    "======== Start of Content from Page " \o PageStem(page) \o " ========\n\n"

EndMarker(page) ==
    "======== End of Content from Page " \o PageStem(page) \o " ========\n\n"

\* What the writes of one block that went through put in the file.
BlockText(b) ==
    (IF b.written >= 1 THEN StartMarker(b.page) ELSE "")
        \o (IF b.written >= 2 THEN b.content \o "\n\n" ELSE "")
        \o (IF b.written >= 3 THEN EndMarker(b.page) ELSE "")

\* The text of a corpus file.
RECURSIVE CorpusText(_)
CorpusText(blocks) ==
    IF Len(blocks) = 0 THEN ""
    ELSE BlockText(Head(blocks)) \o CorpusText(Tail(blocks))

\* run_filter is called with criteria c on the day's corpus file and parses
\* what the file holds at that moment.
RunFilterOnCorpus(c) ==
    /\ f_pc = "idle"
    /\ Corpus.exists
    /\ criteria' = c
    /\ tender_file' = [exists |-> TRUE, text |-> CorpusText(Corpus.blocks)]
    /\ tagged_blocks' = parse_tender_blocks_from_tagged_file(tender_file')
    /\ read_failed' = FALSE
    /\ block_idx' = 1
    /\ matching_tender_dictionaries' = <<>>
    /\ f_pc' = "loop"
    /\ UNCHANGED <<result_file, other>>
    /\ UNCHANGED <<pc, raw_pages, mainVars, scrapeVars, mergeVars, dashVars>>

\* One merge that meets no error of the file system, and one filter run on
\* its corpus file.
NextFilterDuringMerge ==
    \/ MergeCall
    \/ MergeList
    \/ MergeOpen
    \/ MergeAppendPage(TRUE)
    \/ MergeSkipPage(TRUE)
    \/ MergeClose
    \/ MainAfterMerge
    \/ \E c \in RerunCriteria : RunFilterOnCorpus(c)
    \/ FilterKeep
    \/ FilterDrop
    \/ FilterOpen
    \/ FilterDump

SpecFilterDuringMerge == InitMerge /\ [][NextFilterDuringMerge]_vars

(***************************************************************************)
(* The dashboard: dashboard.py, and run_filter_submit of dashboard-og.py.  *)
(* The handlers are followed for the paths they build and test; what       *)
(* run_filter puts in the result file is followed above.                   *)
(***************************************************************************)

\* The parts of a path given as text, as pathlib keeps them: empty parts
\* and "." are dropped, ".." stays.
Parts(s) == SelectSeq(SplitOn(s, "/"), LAMBDA part : part # "" /\ part # ".")

\* base / s: an absolute s replaces base.
JoinPath(base, s) == IF StartsAt(s, 1, "/") THEN Parts(s) ELSE base \o Parts(s)

\* Where the symbolic link stands, when there is one.
LinkPath == FILTERED_PATH \o <<"link">>

\* Path.resolve(strict=False): ".." steps up, the symbolic link is followed.
RECURSIVE ResolveFrom(_, _, _)
ResolveFrom(done, rest, link) ==
    IF Len(rest) = 0 THEN done
    ELSE IF Head(rest) = ".."
    THEN ResolveFrom(SubSeq(done, 1, Len(done) - 1), Tail(rest), link)
    ELSE LET next == Append(done, Head(rest)) IN
         ResolveFrom(IF next = LinkPath /\ link # NoLink THEN link ELSE next,
                     Tail(rest), link)

resolve(path, link) == ResolveFrom(<<>>, path, link)

\* Path.parents
parents(path) == {SubSeq(path, 1, k) : k \in 0..(Len(path) - 1)}

\* `not subdir or ".." in subdir or subdir.startswith(("/", "\\"))`
InvalidSubdirName(subdir) ==
    \/ subdir = ""
    \/ IsSubstring("..", subdir)
    \/ StartsAt(subdir, 1, "/")
    \/ StartsAt(subdir, 1, "\\")

_validate_subdir_NoParentsCheck(subdir, link) ==
    IF InvalidSubdirName(subdir) THEN [status |-> "400", path |-> <<>>]
    ELSE [status |-> "ok",
          path |-> resolve(JoinPath(FILTERED_PATH, subdir), link)]

_validate_subdir_NameOnly(subdir, link) ==
    LET resolved_path == resolve(JoinPath(FILTERED_PATH, subdir), link) IN
    IF FILTERED_PATH \notin parents(resolved_path)
    THEN [status |-> "500", path |-> <<>>]
    ELSE [status |-> "ok", path |-> resolved_path]

\* The resolved path of a subdir that passes, or the status of the
\* HTTPException: 400 for the name; the 400 of the parents test is raised
\* inside the try and leaves as the 500 of its `except Exception`.
_validate_subdir(subdir, link) ==
    IF InvalidSubdirName(subdir) THEN [status |-> "400", path |-> <<>>]
    ELSE LET resolved_path == resolve(JoinPath(FILTERED_PATH, subdir), link) IN
         IF FILTERED_PATH \notin parents(resolved_path)
         THEN [status |-> "500", path |-> <<>>]
         ELSE [status |-> "ok", path |-> resolved_path]

\* The test of filter_name in run_filter_submit of dashboard.py.
InvalidFilterName(filter_name) ==
    \/ filter_name = ""
    \/ IsSubstring("..", filter_name)
    \/ StartsAt(filter_name, 1, "/")
    \/ StartsAt(filter_name, 1, "\\")
    \/ IsSubstring("/", filter_name)
    \/ IsSubstring("\\", filter_name)

\* `not source_file_path.is_file() or BASE_PATH.resolve() not in
\* source_file_path.parents`
InvalidSourceFile(file, files, link) ==
    LET source_file_path == resolve(JoinPath(BASE_PATH, file), link) IN
    source_file_path \notin files \/ BASE_PATH \notin parents(source_file_path)

\* base_folder / "Filtered Tenders" / f"{filter_name} Tenders", as the file
\* system finds it.
output_folder(filter_name, link) ==
    resolve(JoinPath(FILTERED_PATH, filter_name \o " Tenders"), link)

\* p is root or stands below it.
Under(root, p) == Len(p) >= Len(root) /\ SubSeq(p, 1, Len(root)) = root

\* What the requests carry.
FilterNames == {"", "a", "b", ".", "..", "../x", "a/b", "/a", "\\a"}
SourceFileNames == {CorpusFileName, "missing.txt"}
Subdirs == {"", ".", "..", "../x", "/etc", "\\etc", "a..b", "a Tenders",
            "b Tenders", "a Tenders/.", "none Tenders", "link"}
LinkTargets == {NoLink, BASE_PATH, FILTERED_PATH, FILTERED_PATH \o <<"a Tenders">>}

dashboardIdle == <<pc, raw_pages, mainVars, scrapeVars, mergeVars, filterVars>>

\* POST /run-filter of dashboard.py: the two tests, then run_filter, which
\* makes the output folder and writes the result file in it.
run_filter_submit(filter_name, file) ==
    /\ IF InvalidFilterName(filter_name)
          \/ InvalidSourceFile(file, d_files, d_link)
       THEN UNCHANGED <<d_dirs, d_files, d_call>>
       ELSE LET folder == output_folder(filter_name, d_link) IN
            /\ d_dirs' = d_dirs \cup {SubSeq(folder, 1, k) : k \in 1..Len(folder)}
            /\ d_files' = d_files \cup {folder \o <<output_filename>>}
            /\ d_call' = [app |-> "dashboard.py", filter_name |-> filter_name,
                          outcome |-> "returned"]
    /\ UNCHANGED <<d_link, d_resp>>
    /\ UNCHANGED dashboardIdle

\* POST /run-filter of dashboard-og.py: run_filter is called with five of
\* its eight parameters, which raises TypeError before its first statement.
og_run_filter_submit(filter_name) ==
    /\ d_call' = [app |-> "dashboard-og.py", filter_name |-> filter_name,
                  outcome |-> "TypeError"]
    /\ UNCHANGED <<d_dirs, d_files, d_link, d_resp>>
    /\ UNCHANGED dashboardIdle

\* The part view_tenders and download_tender_excel share: the subdir is
\* validated and the file looked for.
ReadTenderSet(op, subdir) ==
    LET v == _validate_subdir(subdir, d_link)
        file_path == v.path \o <<FILTERED_TENDERS_FILENAME>>
    IN  /\ d_resp' =
              IF v.status # "ok"
              THEN [op |-> op, subdir |-> subdir, status |-> v.status,
                    path |-> <<>>, has_result |-> FALSE]
              ELSE [op |-> op, subdir |-> subdir,
                    status |-> IF file_path \in d_files THEN "200" ELSE "404",
                    path |-> file_path,
                    has_result |-> (v.path \o <<output_filename>>) \in d_files]
        /\ UNCHANGED <<d_dirs, d_files, d_link, d_call>>
        /\ UNCHANGED dashboardIdle

\* GET /view/{subdir}
view_tenders(subdir) == ReadTenderSet("view", subdir)

\* GET /download/{subdir}
download_tender_excel(subdir) == ReadTenderSet("download", subdir)

\* POST /delete/{subdir}: shutil.rmtree of the validated directory.
delete_tender_set(subdir) ==
    LET v == _validate_subdir(subdir, d_link) IN
    /\ IF v.status # "ok"
       THEN /\ d_resp' = [op |-> "delete", subdir |-> subdir, status |-> v.status,
                          path |-> <<>>, has_result |-> FALSE]
            /\ UNCHANGED <<d_dirs, d_files>>
       ELSE IF v.path \notin d_dirs
       THEN /\ d_resp' = [op |-> "delete", subdir |-> subdir, status |-> "404",
                          path |-> v.path, has_result |-> FALSE]
            /\ UNCHANGED <<d_dirs, d_files>>
       ELSE /\ d_resp' = [op |-> "delete", subdir |-> subdir, status |-> "303",
                          path |-> v.path,
                          has_result |-> (v.path \o <<output_filename>>) \in d_files]
            /\ d_dirs' = {d \in d_dirs : ~Under(v.path, d)}
            /\ d_files' = {f \in d_files : ~Under(v.path, f)}
    /\ UNCHANGED <<d_link, d_call>>
    /\ UNCHANGED dashboardIdle

\* The dashboards serve a data directory that holds one corpus file and no
\* result set; FILTERED_PATH may hold a symbolic link.
InitDashboard ==
    /\ pc = "launch"
    /\ browser = None
    /\ current_page_num = 1
    /\ batch = <<>>
    /\ pages_in_batch = <<>>
    /\ open_pages = {}
    /\ close_idx = 1
    /\ task = [p \in PageNumbers |-> IdleTask]
    /\ results = <<>>
    /\ result_idx = 1
    /\ all_fetched_content = [p \in PageNumbers |-> None]
    /\ last_valid_content_hash = None
    /\ stop_fetching = FALSE
    /\ raw_pages = [p \in PageNumbers |-> NoFile]
    /\ success = FALSE
    /\ status_message = "Scraper started."
    /\ dispatched = <<>>
    /\ resolved = {}
    /\ processed = {}
    /\ stop_page = 0
    /\ stop_reason = "none"
    /\ error = "none"
    /\ MergeNotCalled
    /\ FilterNotCalled
    /\ d_dirs = {BASE_PATH, FILTERED_PATH}
    /\ d_files = {BASE_PATH \o <<CorpusFileName>>}
    /\ d_link \in LinkTargets
    /\ d_call = NoCall
    /\ d_resp = NoRequest

NextDashboard ==
    \/ \E filter_name \in FilterNames, file \in SourceFileNames :
          run_filter_submit(filter_name, file)
    \/ \E filter_name \in FilterNames : og_run_filter_submit(filter_name)
    \/ \E subdir \in Subdirs : view_tenders(subdir)
    \/ \E subdir \in Subdirs : download_tender_excel(subdir)
    \/ \E subdir \in Subdirs : delete_tender_set(subdir)

SpecDashboard == InitDashboard /\ [][NextDashboard]_vars

(***************************************************************************)
(* Properties of run_filter                                                *)
(***************************************************************************)

\* The empty criteria: no keyword, no state, no date bound.
EmptyCriteria ==
    /\ criteria.keywords = <<>>
    /\ criteria.state = ""
    /\ criteria.start_date = ""
    /\ criteria.end_date = ""

\* The records of the blocks the source file parses into, in file order.
ParsedRecords ==
    [i \in 1..Len(ParsedBlocks(tender_file)) |->
        extract_table[ParsedBlocks(tender_file)[i]]]

\* C20: when run_filter returns from a call with an empty keyword list, no
\* state and no date bound, the result it wrote is the sequence of the
\* records parsed from the source file: each once, in the order of the
\* file (none when the file could not be read).
C20_EmptyCriteriaReturnEverything ==
    (f_pc = "returned" /\ EmptyCriteria) =>
        /\ result_file.exists /\ result_file.complete
        /\ result_file.tenders = IF read_failed THEN <<>> ELSE ParsedRecords

\* Two records, the second without any tag, both returned in file order.
C20_Witness ==
    /\ f_pc = "returned"
    /\ EmptyCriteria
    /\ ~read_failed
    /\ Len(result_file.tenders) = 2
    /\ result_file.tenders[1].title = "Road Work"
    /\ result_file.tenders[1].state = "Kerala"
    /\ result_file.tenders[2].title = NA

(***************************************************************************)
(* Properties of matches_filters, read off the result run_filter writes    *)
(***************************************************************************)

Returned == f_pc = "returned"

Result == result_file.tenders

\* The parsed records that satisfy P, in the order of the source file; none
\* when the file could not be read.
Kept(P(_)) == IF read_failed THEN <<>> ELSE SelectSeq(ParsedRecords, P)

\* The three tests of matches_filters over the records and criteria of the
\* model, each value computed once.
StatePasses_table ==
    [call \in {<<t, f>> : t \in ParsedTenders, f \in {c.state : c \in FilterCriteria}} |->
        StatePasses(call[1], call[2])]

DatePasses_table ==
    [call \in {<<t, a, b>> : t \in ParsedTenders,
                             a \in {c.start_date : c \in FilterCriteria},
                             b \in {c.end_date : c \in FilterCriteria}} |->
        DatePasses(call[1], call[2], call[3])]

KeywordsPass_table ==
    [call \in {<<t, k, r>> : t \in ParsedTenders,
                             k \in {c.keywords : c \in FilterCriteria},
                             r \in BOOLEAN} |->
        KeywordsPass(call[1], call[2], call[3])]

\* C21: whatever the criteria, the result run_filter writes is the
\* subsequence, in file order, of the parsed records for which the state
\* test, the date test and the keyword test all hold; no record is repeated,
\* moved or changed.
C21_ResultIsMatchingSubsequence ==
    Returned =>
        /\ result_file.exists /\ result_file.complete
        /\ Result = Kept(LAMBDA t :
                        /\ StatePasses_table[<<t, criteria.state>>]
                        /\ DatePasses_table[<<t, criteria.start_date, criteria.end_date>>]
                        /\ KeywordsPass_table[<<t, criteria.keywords, criteria.use_regex>>])

\* State, both date bounds and a keyword supplied; of the two records of
\* the file the first passes all three tests and the second does not.
C21_Witness ==
    /\ Returned
    /\ ~read_failed
    /\ criteria.state # "" /\ criteria.keywords # <<>>
    /\ criteria.start_date = "2025-04-01" /\ criteria.end_date = "2025-04-30"
    /\ Len(ParsedRecords) = 2
    /\ Len(Result) = 1
    /\ Result[1] = ParsedRecords[1]

\* f read in s, the case of the letters ignored.
NamedIn ==
    [pair \in {<<f, s>> : f \in {c.state : c \in FilterCriteria},
                          s \in {t.state : t \in ParsedTenders}} |->
        \E i \in 1..(Len(pair[2]) - Len(pair[1]) + 1) :
            \A k \in 1..Len(pair[1]) :
                LowerChar(Char(pair[1], k)) = LowerChar(Char(pair[2], i + k - 1))]

OnlyState ==
    /\ criteria.keywords = <<>>
    /\ criteria.start_date = ""
    /\ criteria.end_date = ""

published ==
    [t \in ParsedTenders |->
        IF t.start_date \in {"", NA} THEN NoDate
        ELSE strptime_tender(SplitOn(t.start_date, " ")[1])]

\* The calendar day a bound of the criteria names; NoDate for a bound that
\* is not supplied or names none.
bound ==
    [s \in {c.start_date : c \in FilterCriteria} \cup {c.end_date : c \in FilterCriteria} |->
        IF s = "" THEN NoDate ELSE strptime_filter(s)]

Dated(t) == published[t] # NoDate

\* Strictly before the lower bound or strictly after the upper one.
OutOfRange(t) ==
    \/ bound[criteria.start_date] # NoDate /\ published[t] < bound[criteria.start_date]
    \/ bound[criteria.end_date] # NoDate /\ published[t] > bound[criteria.end_date]

OnlyDates == criteria.keywords = <<>> /\ criteria.state = ""

\* C23: a record whose start date parses is never in the result when its
\* day is strictly before the lower bound or strictly after the upper one,
\* and when the dates are the only criteria every other dated record is in
\* it: a record dated on a bound is kept, whatever its time of day.
C23_DatePredicate ==
    Returned =>
        /\ \A i \in 1..Len(Result) : Dated(Result[i]) => ~OutOfRange(Result[i])
        /\ OnlyDates => SelectSeq(Result, Dated)
                            = Kept(LAMBDA t : Dated(t) /\ ~OutOfRange(t))

\* Both bounds are 2025-04-10: the tender of 10-Apr-2025 09:00 AM is kept
\* and the one of 15-Mar-2025 is not.
C23_Witness ==
    /\ Returned
    /\ OnlyDates
    /\ criteria.start_date = "2025-04-10" /\ criteria.end_date = "2025-04-10"
    /\ Len(ParsedRecords) = 2
    /\ ParsedRecords[1].start_date = "10-Apr-2025 09:00 AM"
    /\ ParsedRecords[2].start_date = "15-Mar-2025"
    /\ published[ParsedRecords[1]] = 20250410
    /\ published[ParsedRecords[2]] = 20250315
    /\ Result = <<ParsedRecords[1]>>

Undated(t) == published[t] = NoDate

\* C24: the records whose start date is missing or does not parse are in
\* the result exactly when they pass the state test and the keyword test,
\* whatever the two bounds.
C24_UndatedNeverExcludedByDate ==
    Returned =>
        SelectSeq(Result, Undated)
            = Kept(LAMBDA t :
                      /\ Undated(t)
                      /\ StatePasses_table[<<t, criteria.state>>]
                      /\ KeywordsPass_table[<<t, criteria.keywords, criteria.use_regex>>])

\* Both bounds supplied; a tender dated "soon" and one with an empty date
\* tag are both kept.
C24_Witness ==
    /\ Returned
    /\ OnlyDates
    /\ criteria.start_date = "2025-04-01" /\ criteria.end_date = "2025-04-30"
    /\ Len(ParsedRecords) = 2
    /\ ParsedRecords[1].start_date = "soon"
    /\ ParsedRecords[2].start_date = ""
    /\ Result = ParsedRecords

\* What one keyword finds in the search text of a record: as a substring
\* in literal mode, as a pattern in regex mode, the case ignored in both.
Hit ==
    [call \in {<<kw, t, r>> : kw \in UNION {{c.keywords[k] : k \in 1..Len(c.keywords)} : c \in FilterCriteria},
                              t \in ParsedTenders,
                              r \in BOOLEAN} |->
        IF call[3]
        THEN ~re_error(call[1]) /\ re_search(call[1], search_content(call[2]))
        ELSE IsSubstring(Lower(call[1]), Lower(search_content(call[2])))]

Malformed(kw) == re_error(kw)

\* At least one keyword of the list matches.
SomeKeywordMatches(t) ==
    \E k \in 1..Len(criteria.keywords) :
        Hit[<<criteria.keywords[k], t, criteria.use_regex>>]

\* A keyword matches and, in regex mode, no pattern before the first one
\* that matches is malformed.
FirstMatchReached(t) ==
    \E k \in 1..Len(criteria.keywords) :
        /\ Hit[<<criteria.keywords[k], t, criteria.use_regex>>]
        /\ criteria.use_regex =>
              \A j \in 1..(k - 1) : ~Malformed(criteria.keywords[j])

OnlyKeywords ==
    /\ criteria.state = ""
    /\ criteria.start_date = ""
    /\ criteria.end_date = ""

\* C25 as stated: with a keyword list the result is the records that at
\* least one keyword matches.
C25_AnyKeywordMatches ==
    (Returned /\ OnlyKeywords /\ criteria.keywords # <<>>)
        => Result = Kept(SomeKeywordMatches)

\* C25: with a keyword list a record passes when a keyword matches its
\* search text (title, identifier, department, state and link) as a
\* substring in literal mode, as a pattern in regex mode, the case ignored,
\* and in regex mode no pattern that stands before the first matching one is
\* malformed; with an empty list every record passes.
C25_KeywordPredicate ==
    Returned =>
        /\ (OnlyKeywords /\ criteria.keywords # <<>>)
              => Result = Kept(FirstMatchReached)
        /\ criteria.keywords # <<>>
              => \A i \in 1..Len(Result) : FirstMatchReached(Result[i])
        /\ (OnlyKeywords /\ criteria.keywords = <<>>)
              => Result = Kept(LAMBDA t : TRUE)

\* The literal keyword "road" keeps "Road Work" and drops " Bridge ".
C25_Witness ==
    /\ Returned
    /\ OnlyKeywords
    /\ criteria.keywords = <<"road">>
    /\ ~criteria.use_regex
    /\ Len(ParsedRecords) = 2
    /\ ParsedRecords[1].title = "Bridge"
    /\ ParsedRecords[2].title = "Road Work"
    /\ Result = <<ParsedRecords[2]>>

\* C26: in regex mode a malformed pattern anywhere in the list makes every
\* record fail, whatever the other patterns match, and run_filter still
\* returns after writing its result.
C26_MalformedPatternFailsRecord ==
    (/\ Returned
     /\ criteria.use_regex
     /\ \E k \in 1..Len(criteria.keywords) : Malformed(criteria.keywords[k]))
        => /\ result_file.exists /\ result_file.complete
           /\ Result = <<>>

\* C27: every record extract_tender_info_from_tagged_block returns has its
\* eight fields, none of them null, and a field for which the block holds no
\* data is the sentinel "N/A".
C27_NoDataIsSentinel ==
    (f_pc = "loop" /\ block_idx <= Len(tagged_blocks)) =>
        /\ DOMAIN tender_info = {"start_date", "end_date", "opening_date", "title",
                                 "tender_id", "department", "state", "link"}
        /\ \A field \in DOMAIN tender_info : tender_info[field] # ""

(***************************************************************************)
(* Properties of two calls of run_filter with one filter_name              *)
(***************************************************************************)

BothReturned == Returned /\ other.pc = "returned"

\* The result file holding exactly the records `out`.
Holds(out) == result_file = [exists |-> TRUE, complete |-> TRUE, tenders |-> out]

\* One call was over before the other began.
OneAfterTheOther == other.ended_before \/ other.started_after

C30_LastWriterWins ==
    BothReturned =>
        \/ Holds(matching_tender_dictionaries)
        \/ Holds(other.out)

(***************************************************************************)
(* Properties of run_filter beside merge_and_cleanup                       *)
(***************************************************************************)

\* C29: a filter run beside a merge reads a completed corpus file only:
\* once merge_and_cleanup has returned, the text the filter run read is
\* the text of the corpus file the merge wrote, with all of its blocks.
C29_FilterReadsCompletedCorpus ==
    (f_pc # "idle" /\ MergeReturned) =>
        tender_file.text = CorpusText(Corpus.blocks)

\* The filter run read the corpus file after merge_and_cleanup closed it.
ReadWholeCorpus ==
    /\ f_pc # "idle"
    /\ MergeReturned
    /\ tender_file.text = CorpusText(Corpus.blocks)

\* C31: a corpus that merge_and_cleanup wrote with k blocks is split by
\* parse_tender_blocks_from_tagged_file into k blocks, the i-th holding the
\* content of the i-th block written.
C31_CorpusResplitIntoItsBlocks ==
    ReadWholeCorpus =>
        /\ Len(tagged_blocks) = Len(Corpus.blocks)
        /\ \A i \in 1..Len(tagged_blocks) :
              tagged_blocks[i] = Corpus.blocks[i].content

(***************************************************************************)
(* Properties of the dashboard                                             *)
(***************************************************************************)

\* The folder is a direct child of FILTERED_PATH.
DirectChild(folder) ==
    Len(folder) = Len(FILTERED_PATH) + 1 /\ Under(FILTERED_PATH, folder)

\* C32: every call of run_filter that a handler makes passes a filter_name
\* that is not empty and holds no ".." and no path separator, and the output
\* folder of that name is a direct child of "Filtered Tenders".
C32_CallsPassValidatedName ==
    d_call.app # "none" =>
        /\ ~InvalidFilterName(d_call.filter_name)
        /\ DirectChild(output_folder(d_call.filter_name, d_link))

\* C37: when the directory of a view or download request holds the file
\* that run_filter wrote there, the request finds its file.
C37_WrittenSetIsServed ==
    (d_resp.op \in {"view", "download"} /\ d_resp.has_result) =>
        d_resp.status = "200"

StrictlyInside(path) == FILTERED_PATH \in parents(path)

\* What the data directory held outside the result sets is still there.
OutsideKept ==
    /\ BASE_PATH \in d_dirs
    /\ FILTERED_PATH \in d_dirs
    /\ BASE_PATH \o <<CorpusFileName>> \in d_files

\* C38: a view, download or delete request that is not rejected looked at a
\* path strictly inside "Filtered Tenders", for a subdir that is not empty,
\* holds no ".." and is not absolute; and no request removes "Filtered
\* Tenders" itself or anything outside it.
C38_ActsOnlyInsideFiltered ==
    /\ d_resp.status \in {"200", "404", "303"} =>
          /\ ~InvalidSubdirName(d_resp.subdir)
          /\ StrictlyInside(d_resp.path)
    /\ OutsideKept

\* The result set "a Tenders" was deleted on request; a request for "."
\* or for the link that leads out of "Filtered Tenders" would have been
\* rejected.
C38_Witness ==
    /\ d_resp.op = "delete"
    /\ d_resp.status = "303"
    /\ d_resp.path = FILTERED_PATH \o <<"a Tenders">>
    /\ d_resp.path \notin d_dirs
    /\ d_link = BASE_PATH
    /\ _validate_subdir(".", d_link).status = "500"
    /\ _validate_subdir("link", d_link).status = "500"

(***************************************************************************)
(* Properties of fetch_pages_concurrently: the hash, the pages, the        *)
(* content map and the browser                                             *)
(***************************************************************************)

\* No fetch_single_page coroutine is between its start and its return.
NoFetchInFlight == \A p \in PageNumbers : task[p].pc \in {"idle", "done"}

\* The results stand in the order of the tasks, which is that of the pages.
ResultsInPageOrder ==
    /\ Len(results) = Len(batch)
    /\ \A i \in 1..Len(results) : results[i][1] = batch[i]
    /\ \A i, j \in 1..Len(results) : i < j => results[i][1] < results[j][1]

\* The tests and the save of the result loop, where the hash is read and
\* written, run with every fetch of the batch over.
C33_ProcessingAfterGather ==
    pc = "process" => (NoFetchInFlight /\ ResultsInPageOrder)

\* A step that changes the hash is a step of the result loop, and sets the
\* hash of the result it is at.
C33_HashStep ==
    last_valid_content_hash' # last_valid_content_hash =>
        /\ pc = "process"
        /\ NoFetchInFlight
        /\ last_valid_content_hash' = Hash(results[result_idx][2])

\* A result is examined after those of all lower pages.
C33_AscendingStep ==
    \A p \in processed' \ processed : \A q \in processed : q < p

\* C33: last_valid_content_hash is read and written by the orchestrator only,
\* in the loop over the gathered results, with no fetch of the batch in
\* flight; the results are processed in ascending page order.
C33_HashOwnedByOrchestrator ==
    []C33_ProcessingAfterGather /\ [][C33_HashStep /\ C33_AscendingStep]_vars

\* The first result of a batch of two was saved and set the hash; the
\* second is about to be compared with it.
C33_Witness ==
    /\ pc = "process"
    /\ Len(batch) = 2
    /\ result_idx = 2
    /\ results[1][2] # None
    /\ results[2][2] # None
    /\ last_valid_content_hash = Hash(results[1][2])
    /\ batch[1] \in processed

\* C34: each task of a batch has a browser page of its own, a fetch runs on
\* an open page, the pages of a batch are closed before the next batch
\* opens its pages, and no page serves twice.
C34_PageOwnedByOneTask ==
    /\ Len(pages_in_batch) = Len(batch)
    /\ \A i, j \in 1..Len(pages_in_batch) :
          i # j => pages_in_batch[i] # pages_in_batch[j]
    /\ \A i, j \in 1..Len(dispatched) : i # j => dispatched[i] # dispatched[j]
    /\ \A p \in PageNumbers : task[p].pc \in {"nav", "sleep"} => p \in open_pages
    /\ pc = "prepare" =>
          open_pages \subseteq {pages_in_batch[i] : i \in 1..Len(pages_in_batch)}

\* The second batch has opened its first page; the pages of the first batch
\* are closed.
C34_Witness ==
    /\ pc = "prepare"
    /\ Len(dispatched) = CONCURRENT_FETCHES + 1
    /\ open_pages = {CONCURRENT_FETCHES + 1}
    /\ pages_in_batch = <<CONCURRENT_FETCHES + 1>>

\* The keys of all_fetched_content.
Keys == {p \in PageNumbers : all_fetched_content[p] # None}

\* The pages whose write_text went through.
WrittenPages == {p \in PageNumbers : raw_pages[p] \notin {NoFile, EmptyText}}

\* C35: the keys of all_fetched_content are the pages whose Page_N.txt was
\* written, each with the text written, and last_valid_content_hash is the
\* hash of the page written last, None before the first write.
C35_ContentMapIsWrittenPages ==
    /\ Keys = WrittenPages
    /\ \A p \in Keys : raw_pages[p] = all_fetched_content[p]
    /\ last_valid_content_hash =
          IF Keys = {} THEN None
          ELSE Hash(all_fetched_content[CHOOSE p \in Keys : \A q \in Keys : q <= p])

\* The write of page 1 failed, page 2 was written: page 1 is not a key and
\* the hash is that of page 2.
C35_Witness ==
    /\ 1 \in processed
    /\ raw_pages[1] = EmptyText
    /\ Keys = {2}
    /\ results[1][1] = 1
    /\ results[1][2] # None
    /\ Hash(results[1][2]) # Hash(all_fetched_content[2])
    /\ last_valid_content_hash = Hash(all_fetched_content[2])

FetchReturned == pc \in {"returned", "merge", "finished"}

\* C36: when fetch_pages_concurrently has returned, the browser it launched
\* is closed (none was launched only when the launch itself failed), after
\* the last page, after a stop signal and after an unexpected error.
C36_BrowserClosedOnReturn ==
    FetchReturned =>
        /\ browser # "open"
        /\ browser = None <=> error = "launch"
        /\ open_pages = {}

\* browser.new_page() raised in the second batch; the function returned
\* with the browser closed.
C36_Witness ==
    /\ pc = "returned"
    /\ error = "new_page"
    /\ Len(dispatched) = CONCURRENT_FETCHES
    /\ browser = "closed"

====
